---- MODULE Spec2Model ----
(***************************************************************************)
(* The delay/power characterizer of compiler/characterizer/delay.py:       *)
(* class delay, its cycle sequencer (create_test_cycles), its two period   *)
(* searches (find_feasible_period, find_min_period) and analyze.           *)
(*                                                                         *)
(* Numbers.  Every period handled by the searches is the nominal period    *)
(* tech.spice["feasible_period"] doubled at most 6 times and then moved by *)
(* at most 24 midpoints, so it is a whole number of ticks when one tick is *)
(* 2^-24 of the nominal period.  All times of the model are whole ticks    *)
(* and the arithmetic of the code on them (+, 2*, 0.5*, <, >) is exact.    *)
(* The simulator reports seconds and watts; a raw measurement is counted   *)
(* in 1e-9 ticks (1e-3 power units), so the *1e9 and *1e3 of the code      *)
(* change the unit and keep the count.                                     *)
(* A time of the cycle list (up to 11 periods) does not fit a 32 bit       *)
(* integer in ticks; it is held as n nominal periods plus t ticks.         *)
(* Python lists are 0-based: an index held in the state (write0_cycle ...) *)
(* is the Python index, and At(list, i) reads position i.                  *)
(***************************************************************************)
EXTENDS Integers, Sequences, FiniteSets, TLC

\* tech.spice["feasible_period"], the seed of find_feasible_period, in ticks
NominalPeriod == 16777216
\* time_out of find_feasible_period
FeasibleTimeOut == 8
\* time_out of find_min_period
MinPeriodTimeOut == 25
\* error_tolerance=0.05 of the relative_compare calls, as its reciprocal
ToleranceDiv == 20

\* ---------------------------------------------------------------------
\* Values a parsed measurement can have: a float, or the failure marker
\* (a string), told apart by type() in the code.
Float(v) == [type |-> "float", val |-> v]
Failed == [type |-> "str", val |-> 0]
IsFloat(x) == x.type = "float"

Abs(x) == IF x < 0 THEN -x ELSE x
Max2(a, b) == IF a >= b THEN a ELSE b

\* charutils.relative_compare: the two values are within error_tolerance
\* of each other, relative to the larger.  20*|a-b| <= max(|a|,|b|), written
\* without the product.
\* a tolerance taken relative to the second value alone
relative_compare_one_sided(value1, value2) ==
    Abs(value1 - value2) <= Abs(value2) \div ToleranceDiv
relative_compare(value1, value2) ==
    Abs(value1 - value2) <= Max2(Abs(value1), Abs(value2)) \div ToleranceDiv

At(list, i) == list[i + 1]

\* ---------------------------------------------------------------------
\* Times of the cycle list: n nominal periods and t ticks, t < NominalPeriod.
TimeZero == [n |-> 0, t |-> 0]
TimePlus(a, p) ==
    LET s == a.t + (p % NominalPeriod)
    IN  [n |-> a.n + (p \div NominalPeriod) + (s \div NominalPeriod),
         t |-> s % NominalPeriod]
\* k * p as a time, for the statements of the claims
TimeTimes(k, p) ==
    LET s == k * (p % NominalPeriod)
    IN  [n |-> k * (p \div NominalPeriod) + (s \div NominalPeriod),
         t |-> s % NominalPeriod]

\* ---------------------------------------------------------------------
\* The cycle sequencer.  The lists of the delay object that
\* create_test_cycles rebuilds are the fields of one record; err is the
\* message of the fatal debug.error / debug.check that ended the call.
NoCycles(word_size, addr_size) ==
    [err |-> "", t_current |-> TimeZero,
     cycle_comments |-> <<>>, cycle_times |-> <<>>,
     web_values |-> <<>>, oeb_values |-> <<>>, csb_values |-> <<>>,
     data_values |-> [i \in 1..word_size |-> <<>>],
     addr_values |-> [i \in 1..addr_size |-> <<>>],
     write0_cycle |-> -1, read0_cycle |-> -1, idle_cycle |-> -1,
     write1_cycle |-> -1, read1_cycle |-> -1]

\* a string taken as binary whatever its characters
AnyString(str) == TRUE
IsBinary(str) == \A i \in 1..Len(str) : str[i] \in {"0", "1"}
BitOf(c) == IF c = "1" THEN 1 ELSE 0

\* the position of the first character that is not "0" or "1", Len(str) + 1
\* when there is none
FirstNonBinary(str) ==
    IF IsBinary(str) THEN Len(str) + 1
    ELSE CHOOSE k \in 1..Len(str) :
            /\ str[k] \notin {"0", "1"}
            /\ \A i \in 1..(k - 1) : str[i] \in {"0", "1"}
\* the streams after the loop over the characters of str: the stream of
\* every character before the first non-binary one has its value appended
AppendBits(values, str) ==
    [i \in DOMAIN values |->
        IF i < FirstNonBinary(str) THEN Append(values[i], BitOf(str[i]))
        ELSE values[i]]

\* add_data: one value per data bit, appended to that bit's stream; the
\* loop stops in the fatal error at the first non-binary character, after
\* the values of the characters before it were appended
add_data(c, data, word_size) ==
    IF c.err # "" THEN c
    ELSE IF Len(data) # word_size THEN [c EXCEPT !.err = "Invalid data word size."]
    ELSE IF ~IsBinary(data)
    THEN [c EXCEPT !.data_values = AppendBits(c.data_values, data),
                   !.err = "Non-binary data string"]
    ELSE [c EXCEPT !.data_values = AppendBits(c.data_values, data)]

\* add_address: one value per address bit, appended to that bit's stream;
\* the loop stops at the first non-binary character as in add_data
add_address(c, address, addr_size) ==
    IF c.err # "" THEN c
    ELSE IF Len(address) # addr_size THEN [c EXCEPT !.err = "Invalid address size."]
    ELSE IF ~IsBinary(address)
    THEN [c EXCEPT !.addr_values = AppendBits(c.addr_values, address),
                   !.err = "Non-binary address string"]
    ELSE [c EXCEPT !.addr_values = AppendBits(c.addr_values, address)]

\* The part add_noop, add_read and add_write share: the comment, the time
\* of the cycle, the three control values, then the data and the address.
add_cycle(c, comment, address, data, web, oeb, csb, period, word_size, addr_size) ==
    IF c.err # "" THEN c
    ELSE LET c1 == [c EXCEPT
                      !.cycle_comments = Append(c.cycle_comments,
                          [cycle |-> Len(c.cycle_comments), time |-> c.t_current,
                           text |-> comment]),
                      !.cycle_times = Append(c.cycle_times, c.t_current),
                      !.t_current = TimePlus(c.t_current, period),
                      !.web_values = Append(c.web_values, web),
                      !.oeb_values = Append(c.oeb_values, oeb),
                      !.csb_values = Append(c.csb_values, csb)]
         IN  add_address(add_data(c1, data, word_size), address, addr_size)

\* an idle cycle that is put in the lists twice
add_noop_twice(c, comment, address, data, period, word_size, addr_size) ==
    add_cycle(add_cycle(c, comment, address, data, 1, 1, 1, period, word_size, addr_size),
              comment, address, data, 1, 1, 1, period, word_size, addr_size)
add_noop(c, comment, address, data, period, word_size, addr_size) ==
    add_cycle(c, comment, address, data, 1, 1, 1, period, word_size, addr_size)

\* a read cycle given the control values of a write
add_read_as_write(c, comment, address, data, period, word_size, addr_size) ==
    add_cycle(c, comment, address, data, 0, 1, 0, period, word_size, addr_size)
add_read(c, comment, address, data, period, word_size, addr_size) ==
    add_cycle(c, comment, address, data, 1, 0, 0, period, word_size, addr_size)

\* a write cycle that leaves the output enabled
add_write_output_enabled(c, comment, address, data, period, word_size, addr_size) ==
    add_cycle(c, comment, address, data, 0, 0, 0, period, word_size, addr_size)
add_write(c, comment, address, data, period, word_size, addr_size) ==
    add_cycle(c, comment, address, data, 0, 1, 0, period, word_size, addr_size)

\* the bit-complement of a binary probe address (create_test_cycles ends in
\* the fatal error before using it when a character is not "0" or "1")
InverseChar(ch) == IF ch = "0" THEN "1" ELSE "0"
\* a scratch address that is the probe address itself
SameAddress(probe_address) == probe_address
InverseAddress(probe_address) ==
    [i \in 1..Len(probe_address) |-> InverseChar(probe_address[i])]
Repeat(ch, n) == [i \in 1..n |-> ch]

LastIndex(c) == Len(c.cycle_times) - 1
\* "self.<name>_cycle=len(self.cycle_times)-1 # Remember for power measure"
Remember(c, name) == IF c.err # "" THEN c ELSE [c EXCEPT ![name] = LastIndex(c)]

\* the lists that are kept from one call to the next and grow
KeepCycles(prev, word_size, addr_size) == prev
\* the start of create_test_cycles: t_current is 0 and every list is made
\* empty again; the remembered indices stay until they are assigned
ResetCycles(prev, word_size, addr_size) ==
    [NoCycles(word_size, addr_size) EXCEPT
        !.write0_cycle = prev.write0_cycle, !.read0_cycle = prev.read0_cycle,
        !.idle_cycle = prev.idle_cycle, !.write1_cycle = prev.write1_cycle,
        !.read1_cycle = prev.read1_cycle]

create_test_cycles(prev, probe_address, period, word_size, addr_size) ==
    IF ~IsBinary(probe_address)
    THEN [ResetCycles(prev, word_size, addr_size) EXCEPT
             !.err = "Non-binary address string"]
    ELSE
    LET inverse_address == InverseAddress(probe_address)
        data_ones == Repeat("1", word_size)
        data_zeros == Repeat("0", word_size)
        c0 == ResetCycles(prev, word_size, addr_size)
        c1 == add_noop(c0, "Idle cycle (no positive clock edge)",
                       inverse_address, data_zeros, period, word_size, addr_size)
        c2 == add_write(c1, "W data 1 address 0..00",
                        inverse_address, data_ones, period, word_size, addr_size)
        c3 == Remember(add_write(c2, "W data 0 address 11..11 to write value",
                         probe_address, data_zeros, period, word_size, addr_size), "write0_cycle")
        c4 == add_read(c3, "R data 1 address 00..00 to set DOUT caps",
                       inverse_address, data_zeros, period, word_size, addr_size)
        c5 == Remember(add_read(c4, "R data 0 address 11..11 to check W0 worked",
                        probe_address, data_zeros, period, word_size, addr_size), "read0_cycle")
        c6 == Remember(add_noop(c5, "Idle cycle (if read takes >1 cycle)",
                        inverse_address, data_zeros, period, word_size, addr_size), "idle_cycle")
        c7 == Remember(add_write(c6, "W data 1 address 11..11 to write value",
                         probe_address, data_ones, period, word_size, addr_size), "write1_cycle")
        c8 == add_write(c7, "W data 0 address 00..00 to clear DIN caps",
                        inverse_address, data_zeros, period, word_size, addr_size)
        c9 == add_read(c8, "R data 0 address 00..00 to clear DOUT caps",
                       inverse_address, data_zeros, period, word_size, addr_size)
        c10 == Remember(add_read(c9, "R data 1 address 11..11 to check W1 worked",
                         probe_address, data_zeros, period, word_size, addr_size), "read1_cycle")
    IN  add_noop(c10, "Idle cycle (if read takes >1 cycle))",
                 probe_address, data_zeros, period, word_size, addr_size)

\* check_arguments: "" when the probe is accepted, else the message of the
\* fatal debug.error.  int(probe_address, 2) accepts a sign before the
\* binary digits and rejects the empty string, a sign alone and every other
\* character of the model's alphabet.
ParsesBase2(str) ==
    LET digits == IF str # <<>> /\ str[1] \in {"+", "-"} THEN Tail(str) ELSE str
    IN  digits # <<>> /\ IsBinary(digits)
check_arguments(probe_address, probe_data, word_size, addr_size) ==
    IF ~ParsesBase2(probe_address)
    THEN "Probe Address is not of binary form"
    ELSE IF Len(probe_address) # addr_size
    THEN "Probe Address's number of bits does not correspond to given SRAM"
    ELSE IF probe_data > word_size \/ probe_data < 0
    THEN "Given probe_data is not an integer to specify a data bit"
    ELSE ""

\* ---------------------------------------------------------------------
\* What the simulator collaborator leaves in the results file for one
\* delay stimulus: the eight measurements parse_spice_list is asked for.
Output(dhl, dlh, shl, slh, r0, w0, r1, w1) ==
    [delay_hl |-> dhl, delay_lh |-> dlh, slew_hl |-> shl, slew_lh |-> slh,
     read0_power |-> r0, write0_power |-> w0, read1_power |-> r1, write1_power |-> w1]
Timing(dhl, dlh, shl, slh) ==
    Output(dhl, dlh, shl, slh, Float(2), Float(4), Float(3), Float(5))

\* a delay longer than the nominal period and no longer than twice it
HugeDelay == 2 * NominalPeriod

\* check_valid_delays: all four are floats and none exceeds the period
check_valid_delays(out, period) ==
    IF ~IsFloat(out.delay_hl) \/ ~IsFloat(out.delay_lh)
       \/ ~IsFloat(out.slew_lh) \/ ~IsFloat(out.slew_hl)
    THEN FALSE
    ELSE IF out.delay_hl.val > period \/ out.delay_lh.val > period
            \/ out.slew_hl.val > period \/ out.slew_lh.val > period
    THEN FALSE
    ELSE TRUE

NoResult == [delay_hl |-> 0, delay_lh |-> 0, slew_hl |-> 0, slew_lh |-> 0,
             read0_power |-> 0, read1_power |-> 0, write0_power |-> 0, write1_power |-> 0]

\* run_delay_simulation after run_sim: (False, {}) when the delays are not
\* valid, else the scaled results; a power that is the failure marker is a
\* string multiplied by a float, which raises TypeError.
run_delay_simulation(out, period) ==
    IF ~check_valid_delays(out, period)
    THEN [status |-> "invalid", result |-> NoResult]
    ELSE IF ~IsFloat(out.read0_power) \/ ~IsFloat(out.read1_power)
            \/ ~IsFloat(out.write0_power) \/ ~IsFloat(out.write1_power)
    THEN [status |-> "TypeError", result |-> NoResult]
    ELSE [status |-> "ok",
          result |-> [delay_hl |-> out.delay_hl.val, delay_lh |-> out.delay_lh.val,
                      slew_hl |-> out.slew_hl.val, slew_lh |-> out.slew_lh.val,
                      read0_power |-> out.read0_power.val,
                      read1_power |-> out.read1_power.val,
                      write0_power |-> out.write0_power.val,
                      write1_power |-> out.write1_power.val]]

\* a trial that also holds each slew to the tolerance of a reference delay
try_period_slew_tolerance(out, period, feasible_delay_lh, feasible_delay_hl) ==
    /\ check_valid_delays(out, period)
    /\ relative_compare(out.delay_lh.val, feasible_delay_lh)
    /\ relative_compare(out.delay_hl.val, feasible_delay_hl)
    /\ relative_compare(out.slew_lh.val, feasible_delay_lh)
    /\ relative_compare(out.slew_hl.val, feasible_delay_hl)
\* a trial that passes whatever its delays are against the references
try_period_no_tolerance(out, period, feasible_delay_lh, feasible_delay_hl) ==
    check_valid_delays(out, period)
\* try_period after run_sim: the four timing measurements are floats, none
\* exceeds the period, and each delay is within tolerance of its reference
try_period(out, period, feasible_delay_lh, feasible_delay_hl) ==
    IF ~IsFloat(out.delay_hl) \/ ~IsFloat(out.delay_lh)
       \/ ~IsFloat(out.slew_lh) \/ ~IsFloat(out.slew_hl)
    THEN FALSE
    ELSE IF out.delay_hl.val > period \/ out.delay_lh.val > period
            \/ out.slew_hl.val > period \/ out.slew_lh.val > period
    THEN FALSE
    ELSE IF ~relative_compare(out.delay_lh.val, feasible_delay_lh)
    THEN FALSE
    ELSE IF ~relative_compare(out.delay_hl.val, feasible_delay_hl)
    THEN FALSE
    ELSE TRUE

\* ---------------------------------------------------------------------
\* The simulator.  kind "any": every call may leave any output of the
\* sets below.  kind "det": the output is a function of the period, given
\* by two breakpoints b1 <= b2 and the outputs below b1, from b1 up to b2
\* and from b2 on; the leakage readings are fixed.
AllFailed == Output(Failed, Failed, Failed, Failed, Failed, Failed, Failed, Failed)

\* outputs of a simulation run by run_delay_simulation
DelayOutputs ==
    { Timing(Float(1), Float(1), Float(1), Float(1)),
      Timing(Float(HugeDelay), Float(HugeDelay), Float(1), Float(1)),
      Timing(Float(1), Float(0), Float(1), Float(1)),
      Timing(Failed, Float(1), Float(1), Float(1)),
      Timing(Float(1), Float(1), Float(1), Failed),
      Timing(Float(1), Float(1), Float(HugeDelay), Float(1)),
      Output(Float(1), Float(1), Float(1), Float(1), Float(2), Failed, Float(3), Float(5)),
      Output(Float(100), Float(104), Float(100), Float(1),
             Float(7), Float(7), Float(7), Float(7)) }

\* outputs of a simulation run by try_period, which reads the timing only
TrialDelays ==
    { <<Float(1), Float(1)>>, <<Float(100), Float(100)>>, <<Float(100), Float(104)>>,
      <<Float(104), Float(100)>>, <<Float(1), Float(100)>>, <<Failed, Float(1)>>,
      <<Float(1), Failed>>, <<Float(HugeDelay), Float(HugeDelay)>> }
TrialSlews ==
    { <<Float(1), Float(1)>>, <<Float(1), Float(100)>>, <<Failed, Float(1)>> }
TrialOutputs ==
    { Timing(d[1], d[2], w[1], w[2]) : d \in TrialDelays, w \in TrialSlews }

LeakOutputs == { Failed, Float(1), Float(5) }

\* A breakpoint of a simulator is a period, n nominal periods and t ticks
\* (t < NominalPeriod): thresholds beyond every period a search tries are
\* breakpoints too.
Breakpoint(n, t) == [n |-> n, t |-> t]
\* the period is shorter than the breakpoint
Below(period, b) ==
    \/ period \div NominalPeriod < b.n
    \/ period \div NominalPeriod = b.n /\ period % NominalPeriod < b.t
\* breakpoint a is no later than breakpoint b
NoLater(a, b) == a.n < b.n \/ (a.n = b.n /\ a.t <= b.t)

AnySim == [kind |-> "any", b1 |-> Breakpoint(0, 0), b2 |-> Breakpoint(0, 0),
           outs |-> <<AllFailed, AllFailed, AllFailed>>,
           leak_full |-> Failed, leak_trim |-> Failed]

DetOut(s, period) ==
    IF Below(period, s.b1) THEN s.outs[1]
    ELSE IF Below(period, s.b2) THEN s.outs[2]
    ELSE s.outs[3]

\* kind "echo": a deterministic simulator whose measurements tell the load
\* and the slew of the stimulus.  It fails below the breakpoint b1; from b1
\* on every measurement is a float, except those named in failing, which
\* are the failure marker.
EchoValues(load, slew) ==
    [delay_hl |-> 10 * slew + load, delay_lh |-> 10 * slew + load + 1,
     slew_hl |-> slew, slew_lh |-> load,
     read0_power |-> 100 + 10 * slew + load, write0_power |-> 200 + 10 * slew + load,
     read1_power |-> 300 + 10 * slew + load, write1_power |-> 400 + 10 * slew + load]
EchoOut(s, period, load, slew) ==
    IF Below(period, s.b1) THEN AllFailed
    ELSE [k \in DOMAIN AllFailed |->
             IF k \in s.failing THEN Failed ELSE Float(EchoValues(load, slew)[k])]

\* the output of a deterministic simulator for one delay stimulus
SimOut(s, period, load, slew) ==
    IF s.kind = "echo" THEN EchoOut(s, period, load, slew) ELSE DetOut(s, period)

SimDelay(s, period, load, slew) ==
    IF s.kind = "any" THEN DelayOutputs ELSE {SimOut(s, period, load, slew)}
SimTrial(s, period, load, slew) ==
    IF s.kind = "any" THEN TrialOutputs ELSE {SimOut(s, period, load, slew)}
SimLeak(s, trim) ==
    IF s.kind = "any" THEN LeakOutputs
    ELSE IF trim THEN {s.leak_trim} ELSE {s.leak_full}

\* ---------------------------------------------------------------------
\* The stimulus file stim.sp as the simulator reads it: which stimulus,
\* for which period, load and slew, which netlist it includes, how each
\* input is driven, the measure statements and the end of the simulation
\* (write_control).  A power stimulus has no slew.
\* An input is driven by a constant ("0" or "vdd"), by the values of its
\* list at the cycle times ("pwl") or, the clock, by a pulse.
Driven(level, word_size, addr_size) ==
    [din |-> [i \in 1..word_size |-> level], addr |-> [i \in 1..addr_size |-> level],
     csb |-> level, web |-> level, oeb |-> level, clk |-> level]

NoStimulus == [kind |-> "none", period |-> 0, load |-> 0, slew |-> 0,
               include |-> "", signals |-> <<>>, delays |-> <<>>, powers |-> <<>>,
               t_end |-> TimeZero]

\* a power window that ends where it starts
EmptyWindow(c, cycle) ==
    [t_initial |-> At(c.cycle_times, cycle), t_final |-> At(c.cycle_times, cycle)]
\* "t_initial = self.cycle_times[cycle]; t_final = self.cycle_times[cycle+1]"
PowerWindow(c, cycle) ==
    [t_initial |-> At(c.cycle_times, cycle), t_final |-> At(c.cycle_times, cycle + 1)]
DelayMeasure(c, cycle) ==
    [trig_td |-> At(c.cycle_times, cycle), targ_td |-> At(c.cycle_times, cycle)]
\* write_delay_measures: the four delay measures and the four power windows
write_delay_measures(c) ==
    [delays |-> [DELAY_HL |-> DelayMeasure(c, c.read0_cycle),
                 DELAY_LH |-> DelayMeasure(c, c.read1_cycle),
                 SLEW_HL |-> DelayMeasure(c, c.read0_cycle),
                 SLEW_LH |-> DelayMeasure(c, c.read1_cycle)],
     powers |-> [WRITE0_POWER |-> PowerWindow(c, c.write0_cycle),
                 WRITE1_POWER |-> PowerWindow(c, c.write1_cycle),
                 READ0_POWER |-> PowerWindow(c, c.read0_cycle),
                 READ1_POWER |-> PowerWindow(c, c.read1_cycle)]]
\* a leakage window over the first period
LeakageWindowFirst(period) ==
    [t_initial |-> TimeZero, t_final |-> TimeTimes(1, period)]
\* write_power_measures: "t_initial = self.period; t_final = 2*self.period"
write_power_measures(period) ==
    [t_initial |-> TimeTimes(1, period), t_final |-> TimeTimes(2, period)]

write_delay_stimulus(c, period, load, slew, trim_sp_file) ==
    [kind |-> "delay", period |-> period, load |-> load, slew |-> slew,
     include |-> trim_sp_file,
     signals |-> [Driven("pwl", Len(c.data_values), Len(c.addr_values))
                     EXCEPT !.clk = "pulse"],
     delays |-> write_delay_measures(c).delays,
     powers |-> write_delay_measures(c).powers,
     t_end |-> TimePlus(At(c.cycle_times, Len(c.cycle_times) - 1), period)]
\* a power stimulus that includes the trimmed netlist whatever trim is
write_power_stimulus_trimmed(trim, period, load, trim_sp_file, sim_sp_file, word_size, addr_size) ==
    [kind |-> "power", period |-> period, load |-> load, slew |-> 0,
     include |-> trim_sp_file,
     signals |-> [Driven("vdd", word_size, addr_size) EXCEPT
                     !.din = [i \in 1..word_size |-> "0"],
                     !.addr = [i \in 1..addr_size |-> "0"], !.clk = "0"],
     delays |-> <<>>,
     powers |-> [leakage_power |-> write_power_measures(period)],
     t_end |-> TimeTimes(2, period)]
write_power_stimulus(trim, period, load, trim_sp_file, sim_sp_file, word_size, addr_size) ==
    [kind |-> "power", period |-> period, load |-> load, slew |-> 0,
     include |-> IF trim THEN trim_sp_file ELSE sim_sp_file,
     signals |-> [Driven("vdd", word_size, addr_size) EXCEPT
                     !.din = [i \in 1..word_size |-> "0"],
                     !.addr = [i \in 1..addr_size |-> "0"], !.clk = "0"],
     delays |-> <<>>,
     powers |-> [leakage_power |-> write_power_measures(period)],
     t_end |-> TimeTimes(2, period)]

\* the fatal error that ends the writing of a stimulus, "" when none:
\* check_arguments first, then create_test_cycles
StimulusError(chk, c) == IF chk # "" THEN chk ELSE c.err

\* the values the message of a fatal error is formatted with: the probe
\* address in the first message of check_arguments, the slew and the load
\* in the message of the sweep; every other message is a literal
ErrorValues(err, address, sl, ld) ==
    IF err = "Probe Address is not of binary form" THEN <<address>>
    ELSE IF err = "Couldn't run a simulation." THEN <<sl, ld>>
    ELSE <<>>

\* the first value of a list, taken for its largest
SeqFirst(q) == q[1]
RECURSIVE SeqMax(_)
SeqMax(q) == IF Len(q) = 1 THEN q[1] ELSE Max2(q[1], SeqMax(Tail(q)))

\* ---------------------------------------------------------------------
\* a runner that simulates a second time
RunSimTwice(n) == n + 2
\* "self.stim.run_sim()": one more call of the simulator
RunSim(n) == n + 1

\* a preparation that trims whatever the option says
prepare_netlist_always(option, calls) ==
    [trim_sp_file |-> "reduced.sp", sim_sp_file |-> "sram.sp", trim_calls |-> calls + 1]
\* prepare_netlist: with OPTS.trim_netlist the reduced netlist is made by
\* one call of trimsp.trim; without it the file of the trimmed netlist is
\* the non-reduced sram.sp, which is always the file of the full netlist
prepare_netlist(option, calls) ==
    [trim_sp_file |-> IF option THEN "reduced.sp" ELSE "sram.sp",
     sim_sp_file |-> "sram.sp",
     trim_calls |-> IF option THEN calls + 1 ELSE calls]

\* an analyze that goes from the search to the sweep, the leakage left out
NextPhaseNoLeakage(phase) ==
    IF phase = "find_feasible_period" THEN "find_min_period"
    ELSE IF phase = "find_min_period" THEN "sweep"
    ELSE IF phase = "power_full" THEN "power_trim"
    ELSE IF phase = "power_trim" THEN "sweep"
    ELSE "done"
\* the steps of analyze in the order of its code: 1) find_feasible_period,
\* 2) find_min_period, 3) run_power_simulation, full then trimmed, 4) the
\* sweep loops, then the return
NextPhase(phase) ==
    IF phase = "find_feasible_period" THEN "find_min_period"
    ELSE IF phase = "find_min_period" THEN "power_full"
    ELSE IF phase = "power_full" THEN "power_trim"
    ELSE IF phase = "power_trim" THEN "sweep"
    ELSE "done"

\* Bounds of the inputs
MaxWordSize == 2
MaxAddrSize == 2

VARIABLES
    word_size, addr_size,          \* of the sram given to the constructor
    probe_address, probe_data,     \* set_probe
    trim_netlist,                  \* OPTS.trim_netlist as prepare_netlist read it
    slews, loads,                  \* the sweep given to analyze
    period, load, slew,            \* member variables for a simulation
    trim_sp_file, sim_sp_file,     \* prepare_netlist
    cycles,                        \* the lists rebuilt by create_test_cycles
    stim_file,                     \* stim.sp, as last written
    pc, error,                     \* where the run is; the fatal error that ended it
    time_out,                      \* of the search in progress
    feasible_period,               \* find_feasible_period, in nominal periods; then
                                   \* previous_period of find_min_period
    ub_period, lb_period, target_period,      \* find_min_period
    leakage_power,                 \* run_power_simulation, the full-netlist reading
    feasible_delay_lh, feasible_delay_hl, min_period,   \* analyze
    full_array_leakage, trim_array_leakage, char_data,  \* analyze
    slew_i, load_i,                \* position of the sweep loops (0-based)
    sim,                           \* the simulator collaborator
    run_sim_calls,                 \* stim.run_sim() calls of the search or loop in progress
    trim_calls                     \* trimsp.trim() calls

prog == <<word_size, addr_size, probe_address, probe_data, trim_netlist, slews, loads>>
engine == <<period, load, slew, trim_sp_file, sim_sp_file, cycles, stim_file>>
search == <<time_out, feasible_period, ub_period, lb_period, target_period,
           leakage_power>>
locals == <<feasible_delay_lh, feasible_delay_hl, min_period,
            full_array_leakage, trim_array_leakage, char_data, slew_i, load_i>>
vars == <<prog, engine, search, locals, pc, error, sim, run_sim_calls, trim_calls>>


EmptyTable == [k \in {} |-> 0]

\* the state after delay.__init__(sram, spfile, corner)
InitObject ==
    /\ word_size = 2 /\ addr_size = 2
    /\ probe_address = <<>> /\ probe_data = 0 /\ trim_netlist = FALSE
    /\ slews = <<>> /\ loads = <<>>
    /\ period = 0 /\ load = 0 /\ slew = 0
    /\ trim_sp_file = "" /\ sim_sp_file = ""
    /\ cycles = NoCycles(word_size, addr_size)
    /\ stim_file = NoStimulus
    /\ pc = "idle" /\ error = ""
    /\ time_out = 0 /\ feasible_period = 0
    /\ ub_period = 0 /\ lb_period = 0 /\ target_period = 0
    /\ leakage_power = 0
    /\ feasible_delay_lh = 0 /\ feasible_delay_hl = 0 /\ min_period = 0
    /\ full_array_leakage = 0 /\ trim_array_leakage = 0
    /\ char_data = EmptyTable
    /\ slew_i = 0 /\ load_i = 0
    /\ run_sim_calls = 0 /\ trim_calls = 0

Init == InitObject /\ sim = AnySim

\* ---------------------------------------------------------------------
\* analyze(probe_address, probe_data, slews, loads), up to the first
\* iteration of find_feasible_period: set_probe and prepare_netlist, the
\* maximum load and slew, the seed and the budget of the search.
AnalyzeInputs ==
    { [probe_address |-> <<"1", "0">>, probe_data |-> 0, slews |-> <<2>>,
       loads |-> <<3>>, trim_netlist |-> TRUE],
      [probe_address |-> <<"0", "1">>, probe_data |-> 1, slews |-> <<2, 1>>,
       loads |-> <<3>>, trim_netlist |-> FALSE],
      [probe_address |-> <<"1", "1">>, probe_data |-> 2, slews |-> <<1>>,
       loads |-> <<3, 1>>, trim_netlist |-> TRUE],
      [probe_address |-> <<"1", "x">>, probe_data |-> 0, slews |-> <<2>>,
       loads |-> <<3>>, trim_netlist |-> TRUE],
      [probe_address |-> <<"+", "1">>, probe_data |-> 0, slews |-> <<2>>,
       loads |-> <<3>>, trim_netlist |-> TRUE],
      [probe_address |-> <<"1">>, probe_data |-> 0, slews |-> <<2>>,
       loads |-> <<3>>, trim_netlist |-> FALSE],
      [probe_address |-> <<"1", "0">>, probe_data |-> 3, slews |-> <<2>>,
       loads |-> <<3>>, trim_netlist |-> FALSE],
      [probe_address |-> <<"1", "0">>, probe_data |-> -1, slews |-> <<2>>,
       loads |-> <<3>>, trim_netlist |-> FALSE],
      [probe_address |-> <<"1", "0">>, probe_data |-> 0, slews |-> <<2>>,
       loads |-> <<>>, trim_netlist |-> FALSE],
      [probe_address |-> <<"1", "0">>, probe_data |-> 0, slews |-> <<>>,
       loads |-> <<3, 1>>, trim_netlist |-> FALSE] }

\* a sweep of two slews by two loads, run with the deterministic simulators
SweepInputs ==
    { [probe_address |-> <<"0", "0">>, probe_data |-> 0, slews |-> <<1, 2>>,
       loads |-> <<3, 1>>, trim_netlist |-> TRUE] }
\* sweeps run with the echo simulators: the largest slew and load are not
\* the first of their lists, and a value may be given twice
EchoInputs ==
    { [probe_address |-> <<"0", "1">>, probe_data |-> 1, slews |-> sw[1],
       loads |-> sw[2], trim_netlist |-> sw[3]] :
        sw \in { <<<<1, 2>>, <<3, 1>>, TRUE>>, <<<<2, 3, 1>>, <<1, 2>>, FALSE>>,
                 <<<<2>>, <<1, 3, 2>>, TRUE>>, <<<<1, 1>>, <<2, 3>>, TRUE>> } }
InputsFor(s) ==
    IF s.kind = "any" THEN AnalyzeInputs
    ELSE IF s.kind = "echo" THEN EchoInputs
    ELSE AnalyzeInputs \cup SweepInputs

Analyze(inp) ==
    /\ pc = "idle"
    /\ probe_address' = inp.probe_address
    /\ probe_data' = inp.probe_data
    /\ trim_netlist' = inp.trim_netlist
    /\ slews' = inp.slews
    /\ loads' = inp.loads
    \* prepare_netlist
    /\ trim_sp_file' = prepare_netlist(inp.trim_netlist, trim_calls).trim_sp_file
    /\ trim_calls' = prepare_netlist(inp.trim_netlist, trim_calls).trim_calls
    /\ sim_sp_file' = prepare_netlist(inp.trim_netlist, trim_calls).sim_sp_file
    \* "self.load=max(loads)" then "self.slew=max(slews)": max of an empty
    \* list raises, and the load is already assigned when max(slews) does
    /\ IF inp.loads = <<>>
       THEN /\ pc' = "error"
            /\ error' = "ValueError: max() arg is an empty sequence"
            /\ UNCHANGED <<load, slew, feasible_period, time_out>>
       ELSE IF inp.slews = <<>>
       THEN /\ load' = SeqMax(inp.loads)
            /\ pc' = "error"
            /\ error' = "ValueError: max() arg is an empty sequence"
            /\ UNCHANGED <<slew, feasible_period, time_out>>
       ELSE /\ load' = SeqMax(inp.loads)
            /\ slew' = SeqMax(inp.slews)
            /\ feasible_period' = 1
            /\ time_out' = FeasibleTimeOut
            /\ pc' = "find_feasible_period"
            /\ error' = ""
    /\ UNCHANGED <<word_size, addr_size, period, cycles, stim_file,
                   ub_period, lb_period, target_period, leakage_power, locals,
                   sim, run_sim_calls>>

\* One iteration of the loop of find_feasible_period; when the simulation
\* succeeds, find_feasible_period returns and analyze goes on to the first
\* iteration of find_min_period.
\* a budget that is not counted down
CountSame(t) == t
\* "time_out -= 1", then "if (time_out <= 0)"
CountDown(t) == t - 1
\* a budget that ends one iteration sooner
TimedOutEarly(t) == t <= 1
TimedOut(t) == t <= 0

\* a period that grows by the seed
NextLinear(fp) == fp + 1
\* "feasible_period = 2 * feasible_period"
NextFeasible(fp) == 2 * fp

FindFeasiblePeriod ==
    /\ pc = "find_feasible_period"
    /\ LET t == CountDown(time_out)
           p == feasible_period * NominalPeriod
           chk == check_arguments(probe_address, probe_data, word_size, addr_size)
           c == create_test_cycles(cycles, probe_address, p, word_size, addr_size)
           bad == StimulusError(chk, c)
       IN  IF TimedOut(t)
           THEN /\ time_out' = t
                /\ pc' = "error"
                /\ error' = "Timed out, could not find a feasible period."
                /\ UNCHANGED <<engine, feasible_period, ub_period, lb_period,
                               target_period, leakage_power, locals, run_sim_calls>>
           ELSE IF bad # ""
           THEN /\ time_out' = t
                /\ period' = p
                /\ cycles' = IF chk # "" THEN cycles ELSE c
                /\ pc' = "error"
                /\ error' = bad
                /\ UNCHANGED <<load, slew, trim_sp_file, sim_sp_file, stim_file,
                               feasible_period, ub_period, lb_period, target_period,
                               leakage_power, locals, run_sim_calls>>
           ELSE /\ period' = p
                /\ cycles' = c
                /\ stim_file' = write_delay_stimulus(c, p, load, slew, trim_sp_file)
                /\ UNCHANGED <<trim_sp_file, sim_sp_file, target_period, leakage_power,
                               min_period, full_array_leakage, trim_array_leakage,
                               char_data, slew_i, load_i>>
                /\ \E out \in SimDelay(sim, p, load, slew) :
                   LET r == run_delay_simulation(out, p)
                   IN  IF r.status = "invalid"
                       THEN /\ feasible_period' = NextFeasible(feasible_period)
                            /\ time_out' = t
                            /\ run_sim_calls' = RunSim(run_sim_calls)
                            /\ UNCHANGED <<pc, error, load, slew, ub_period, lb_period,
                                           feasible_delay_lh, feasible_delay_hl>>
                       ELSE IF r.status = "TypeError"
                       THEN /\ pc' = "error"
                            /\ error' = "TypeError: can't multiply sequence by non-int of type 'float'"
                            /\ time_out' = t
                            /\ run_sim_calls' = RunSim(run_sim_calls)
                            /\ UNCHANGED <<feasible_period, load, slew, ub_period,
                                           lb_period, feasible_delay_lh, feasible_delay_hl>>
                       ELSE /\ feasible_delay_lh' = r.result.delay_lh
                            /\ feasible_delay_hl' = r.result.delay_hl
                            \* kept as previous_period of find_min_period
                            /\ UNCHANGED feasible_period
                            /\ IF r.result.delay_lh > 0 /\ r.result.delay_hl > 0
                               THEN /\ load' = SeqMax(loads)
                                    /\ slew' = SeqMax(slews)
                                    /\ ub_period' = p
                                    /\ lb_period' = 0
                                    /\ time_out' = MinPeriodTimeOut
                                    /\ pc' = NextPhase(pc)
                                    /\ run_sim_calls' = 0
                                    /\ UNCHANGED error
                               ELSE /\ pc' = "error"
                                    /\ error' = "Negative delay may not be possible"
                                    /\ time_out' = 0
                                    /\ run_sim_calls' = RunSim(run_sim_calls)
                                    /\ UNCHANGED <<load, slew, ub_period, lb_period>>
    /\ UNCHANGED <<prog, sim, trim_calls>>

\* charutils.round_time, as the table of the specification holds the period
round_time(time) == time

\* the table after lines 561-566 of analyze: min_period and the empty lists
NewTable(p) ==
    [min_period |-> round_time(p),
     delay_lh |-> <<>>, delay_hl |-> <<>>, slew_lh |-> <<>>, slew_hl |-> <<>>,
     read0_power |-> <<>>, read1_power |-> <<>>, write0_power |-> <<>>,
     write1_power |-> <<>>, leakage_power |-> <<>>]

\* One iteration of the loop of find_min_period; when the bounds have
\* converged, find_min_period returns the upper bound and analyze stores it
\* and makes the lists of the table.
\* a trial period three quarters of the way up from the lower bound
UpperQuarter(ub, lb) == lb + (3 * (ub - lb)) \div 4
\* "target_period = 0.5 * (ub_period + lb_period)"
Midpoint(ub, lb) == (ub + lb) \div 2
\* the bounds after a trial: on success the trial period is the new upper
\* bound, on failure the new lower bound
\* an upper bound moved to the trial period whatever the trial gave
NewUpperAlways(ok, target, ub) == target
NewUpper(ok, target, ub) == IF ok THEN target ELSE ub
\* a lower bound that a failed trial does not move
NewLowerStuck(ok, target, lb) == lb
NewLower(ok, target, lb) == IF ok THEN lb ELSE target

FindMinPeriod ==
    /\ pc = "find_min_period"
    /\ LET t == CountDown(time_out)
           target == Midpoint(ub_period, lb_period)
           chk == check_arguments(probe_address, probe_data, word_size, addr_size)
           c == create_test_cycles(cycles, probe_address, target, word_size, addr_size)
           bad == StimulusError(chk, c)
       IN  IF TimedOut(t)
           THEN /\ time_out' = t
                /\ pc' = "error"
                /\ error' = "Timed out, could not converge on minimum period."
                /\ UNCHANGED <<engine, feasible_period, ub_period, lb_period,
                               target_period, leakage_power, locals, run_sim_calls>>
           ELSE IF bad # ""
           THEN /\ time_out' = t
                /\ target_period' = target
                /\ period' = target
                /\ cycles' = IF chk # "" THEN cycles ELSE c
                /\ pc' = "error"
                /\ error' = bad
                /\ UNCHANGED <<load, slew, trim_sp_file, sim_sp_file, stim_file,
                               feasible_period, ub_period, lb_period,
                               leakage_power, locals, run_sim_calls>>
           ELSE /\ period' = target
                /\ cycles' = c
                /\ stim_file' = write_delay_stimulus(c, target, load, slew, trim_sp_file)
                /\ UNCHANGED <<load, slew, trim_sp_file, sim_sp_file,
                               leakage_power, full_array_leakage, trim_array_leakage,
                               slew_i, load_i, error>>
                /\ \E out \in SimTrial(sim, target, load, slew) :
                   LET ok == try_period(out, target, feasible_delay_lh, feasible_delay_hl)
                       ub == NewUpper(ok, target, ub_period)
                       lb == NewLower(ok, target, lb_period)
                   IN  IF relative_compare(ub, lb)
                       THEN /\ min_period' = ub
                            /\ char_data' = NewTable(ub)
                            /\ ub_period' = 0 /\ lb_period' = 0 /\ target_period' = 0
                            /\ feasible_period' = 0
                            /\ time_out' = 0
                            /\ pc' = NextPhase(pc)
                            /\ run_sim_calls' = 0
                            /\ UNCHANGED <<feasible_delay_lh, feasible_delay_hl>>
                       ELSE /\ ub_period' = ub
                            /\ lb_period' = lb
                            /\ target_period' = target
                            /\ time_out' = t
                            /\ run_sim_calls' = RunSim(run_sim_calls)
                            /\ UNCHANGED <<pc, min_period, char_data, feasible_period,
                                           feasible_delay_lh, feasible_delay_hl>>
    /\ UNCHANGED <<prog, sim, trim_calls>>

\* run_power_simulation, first half: the leakage of the untrimmed netlist
PowerFull ==
    /\ pc = "power_full"
    /\ LET chk == check_arguments(probe_address, probe_data, word_size, addr_size)
           c == create_test_cycles(cycles, probe_address, period, word_size, addr_size)
           bad == StimulusError(chk, c)
       IN  IF bad # ""
           THEN /\ cycles' = IF chk # "" THEN cycles ELSE c
                /\ pc' = "error"
                /\ error' = bad
                /\ UNCHANGED <<stim_file, run_sim_calls, leakage_power>>
           ELSE /\ cycles' = c
                /\ stim_file' = write_power_stimulus(FALSE, period, load,
                                                     trim_sp_file, sim_sp_file,
                                                     word_size, addr_size)
                /\ run_sim_calls' = RunSim(run_sim_calls)
                /\ \E out \in SimLeak(sim, FALSE) :
                   IF IsFloat(out)
                   THEN /\ leakage_power' = out.val
                        /\ pc' = NextPhase(pc)
                        /\ UNCHANGED error
                   ELSE /\ pc' = "error"
                        /\ error' = "Could not measure leakage power."
                        /\ UNCHANGED leakage_power
    \* the reference delays of analyze are not read again
    /\ feasible_delay_lh' = 0 /\ feasible_delay_hl' = 0
    /\ UNCHANGED <<prog, period, load, slew, trim_sp_file, sim_sp_file, time_out,
                   feasible_period, ub_period, lb_period, target_period, min_period,
                   full_array_leakage, trim_array_leakage, char_data, slew_i, load_i,
                   sim, trim_calls>>

\* run_power_simulation, second half: the leakage of the trimmed netlist;
\* then analyze stores the full leakage and enters the sweep loops.
PowerTrim ==
    /\ pc = "power_trim"
    /\ LET chk == check_arguments(probe_address, probe_data, word_size, addr_size)
           c == create_test_cycles(cycles, probe_address, period, word_size, addr_size)
           bad == StimulusError(chk, c)
       IN  IF bad # ""
           THEN /\ cycles' = IF chk # "" THEN cycles ELSE c
                /\ pc' = "error"
                /\ error' = bad
                /\ UNCHANGED <<stim_file, run_sim_calls, leakage_power,
                               full_array_leakage, trim_array_leakage, char_data>>
           ELSE /\ cycles' = c
                /\ stim_file' = write_power_stimulus(TRUE, period, load,
                                                     trim_sp_file, sim_sp_file,
                                                     word_size, addr_size)
                /\ \E out \in SimLeak(sim, TRUE) :
                   IF IsFloat(out)
                   THEN /\ full_array_leakage' = leakage_power
                        /\ trim_array_leakage' = out.val
                        /\ char_data' = [char_data EXCEPT
                                            !.leakage_power = leakage_power]
                        /\ leakage_power' = 0
                        /\ pc' = NextPhase(pc)
                        /\ run_sim_calls' = 0
                        /\ UNCHANGED error
                   ELSE /\ pc' = "error"
                        /\ error' = "Could not measure leakage power."
                        /\ run_sim_calls' = RunSim(run_sim_calls)
                        /\ UNCHANGED <<leakage_power, full_array_leakage,
                                       trim_array_leakage, char_data>>
    /\ UNCHANGED <<prog, period, load, slew, trim_sp_file, sim_sp_file, time_out,
                   feasible_period, ub_period, lb_period, target_period,
                   feasible_delay_lh, feasible_delay_hl, min_period, slew_i, load_i,
                   sim, trim_calls>>

\* the power entry of the table: the partial array leakage is subtracted
\* and the full array leakage added
\* the two leakages taken for one another
CorrectedPowerSwapped(v, trim_leakage, full_leakage) == v - full_leakage + trim_leakage
\* a corrected power that is not let below 0
CorrectedPowerClamped(v, trim_leakage, full_leakage) ==
    Max2(0, v - trim_leakage + full_leakage)
CorrectedPower(v, trim_leakage, full_leakage) == v - trim_leakage + full_leakage

\* the table after the results of one simulation are appended
\* results that leave out one of the metrics
AppendResultsButOne(table, result, trim_leakage, full_leakage) ==
    [table EXCEPT
       !.delay_hl = Append(@, result.delay_hl),
       !.delay_lh = Append(@, result.delay_lh),
       !.slew_hl = Append(@, result.slew_hl),
       !.read0_power = Append(@, result.read0_power - trim_leakage + full_leakage),
       !.read1_power = Append(@, result.read1_power - trim_leakage + full_leakage),
       !.write0_power = Append(@, result.write0_power - trim_leakage + full_leakage),
       !.write1_power = Append(@, result.write1_power - trim_leakage + full_leakage)]
\* results put at the front of the lists
AppendResultsFront(table, result, trim_leakage, full_leakage) ==
    [table EXCEPT
       !.delay_hl = <<result.delay_hl>> \o @,
       !.delay_lh = <<result.delay_lh>> \o @,
       !.slew_hl = <<result.slew_hl>> \o @,
       !.slew_lh = <<result.slew_lh>> \o @,
       !.read0_power = <<result.read0_power - trim_leakage + full_leakage>> \o @,
       !.read1_power = <<result.read1_power - trim_leakage + full_leakage>> \o @,
       !.write0_power = <<result.write0_power - trim_leakage + full_leakage>> \o @,
       !.write1_power = <<result.write1_power - trim_leakage + full_leakage>> \o @]
AppendResults(table, result, trim_leakage, full_leakage) ==
    [table EXCEPT
       !.delay_hl = Append(@, result.delay_hl),
       !.delay_lh = Append(@, result.delay_lh),
       !.slew_hl = Append(@, result.slew_hl),
       !.slew_lh = Append(@, result.slew_lh),
       !.read0_power = Append(@, CorrectedPower(result.read0_power, trim_leakage, full_leakage)),
       !.read1_power = Append(@, CorrectedPower(result.read1_power, trim_leakage, full_leakage)),
       !.write0_power = Append(@, CorrectedPower(result.write0_power, trim_leakage, full_leakage)),
       !.write1_power = Append(@, CorrectedPower(result.write1_power, trim_leakage, full_leakage))]

\* One iteration of the sweep loops of analyze (slew outer, load inner):
\* a delay simulation at self.period, its results appended to the table;
\* after the last pair analyze returns the table.
Sweep ==
    /\ pc = "sweep"
    /\ LET sl == At(slews, slew_i)
           ld == At(loads, load_i)
           chk == check_arguments(probe_address, probe_data, word_size, addr_size)
           c == create_test_cycles(cycles, probe_address, period, word_size, addr_size)
           bad == StimulusError(chk, c)
           last_load == load_i + 1 = Len(loads)
           last == last_load /\ slew_i + 1 = Len(slews)
       IN  /\ load' = ld
           /\ slew' = sl
           /\ IF bad # ""
              THEN /\ cycles' = IF chk # "" THEN cycles ELSE c
                   /\ pc' = "error"
                   /\ error' = bad
                   /\ UNCHANGED <<stim_file, run_sim_calls, char_data, slew_i, load_i>>
              ELSE /\ cycles' = c
                   /\ stim_file' = write_delay_stimulus(c, period, ld, sl, trim_sp_file)
                   /\ run_sim_calls' = RunSim(run_sim_calls)
                   /\ \E out \in SimDelay(sim, period, ld, sl) :
                      LET r == run_delay_simulation(out, period)
                      IN  IF r.status = "invalid"
                          THEN /\ pc' = "error"
                               /\ error' = "Couldn't run a simulation."
                               /\ UNCHANGED <<char_data, slew_i, load_i>>
                          ELSE IF r.status = "TypeError"
                          THEN /\ pc' = "error"
                               /\ error' = "TypeError: can't multiply sequence by non-int of type 'float'"
                               /\ UNCHANGED <<char_data, slew_i, load_i>>
                          ELSE /\ char_data' = AppendResults(char_data, r.result,
                                                   trim_array_leakage, full_array_leakage)
                               /\ load_i' = IF last_load THEN 0 ELSE load_i + 1
                               /\ slew_i' = IF last_load THEN slew_i + 1 ELSE slew_i
                               /\ pc' = IF last THEN NextPhase(pc) ELSE pc
                               /\ UNCHANGED error
    /\ UNCHANGED <<prog, period, trim_sp_file, sim_sp_file, search,
                   feasible_delay_lh, feasible_delay_hl, min_period,
                   full_array_leakage, trim_array_leakage, sim, trim_calls>>

Next ==
    \/ \E inp \in InputsFor(sim) : Analyze(inp)
    \/ FindFeasiblePeriod
    \/ FindMinPeriod
    \/ PowerFull
    \/ PowerTrim
    \/ Sweep

Spec == Init /\ [][Next]_vars

\* ---------------------------------------------------------------------
\* Deterministic simulators: the output is a function of the period.
\* 2^-19 of the seed, in ticks
ReachTicks == NominalPeriod \div 2^19
\* a tick, 20 and 32 ticks, 1/25 of the seed, the seed, a tick more, 3 and
\* 64 times the seed, and a tick more than 128 times the seed
Breakpoints ==
    { Breakpoint(0, 1), Breakpoint(0, ToleranceDiv), Breakpoint(0, ReachTicks),
      Breakpoint(0, NominalPeriod \div 25), Breakpoint(1, 0), Breakpoint(1, 1),
      Breakpoint(3, 0), Breakpoint(64, 0), Breakpoint(128, 1) }
ValidSmall == Timing(Float(1), Float(1), Float(1), Float(1))
ValidLarge == Output(Float(100), Float(104), Float(100), Float(1),
                     Float(7), Float(7), Float(7), Float(7))
DetSims ==
    { [kind |-> "det", b1 |-> x, b2 |-> y, outs |-> <<o1, o2, o3>>,
       leak_full |-> lk[1], leak_trim |-> lk[2]] :
        x \in Breakpoints, y \in Breakpoints,
        o1 \in {AllFailed, ValidSmall}, o2 \in {AllFailed, ValidSmall, ValidLarge},
        o3 \in {AllFailed, ValidSmall, ValidLarge},
        lk \in {<<Float(1), Float(5)>>, <<Float(5), Failed>>} }

InitDet == InitObject /\ sim \in {s \in DetSims : NoLater(s.b1, s.b2)}
SpecDet == InitDet /\ [][Next]_vars

\* ---------------------------------------------------------------------
\* Echo simulators: the breakpoint, the two leakage readings and the
\* measurements that come back as the failure marker.
EchoSims ==
    { [kind |-> "echo", b1 |-> x, b2 |-> x, outs |-> <<AllFailed, AllFailed, AllFailed>>,
       leak_full |-> lk[1], leak_trim |-> lk[2], failing |-> f] :
        x \in {Breakpoint(0, ToleranceDiv), Breakpoint(0, NominalPeriod \div 25),
               Breakpoint(1, 0), Breakpoint(3, 0)},
        lk \in {<<Float(8), Float(5)>>, <<Float(1), Float(5)>>, <<Float(5), Failed>>,
                <<Float(1), Float(500)>>},
        f \in {{}, {"write0_power"}, {"read1_power"}, {"slew_lh"},
               {"delay_hl", "read0_power"}} }

InitSweep == InitObject /\ sim \in EchoSims
SpecSweep == InitSweep /\ [][Next]_vars

\* ---------------------------------------------------------------------
\* The methods of the object called on their own (set_probe says that the
\* probe "can be set separately to utilize other functions in this
\* characterizer besides analyze"): set_probe, an assignment to period,
\* write_delay_stimulus and write_power_stimulus.
Alphabet == {"0", "1", "x", "+"}
ProbeAddresses == UNION { [1..n -> Alphabet] : n \in 0..MaxAddrSize }
ProbeBits == -1 .. (MaxWordSize + 1)
Periods == { 1, 3, NominalPeriod, 64 * NominalPeriod }

SetProbe(pa, pd, trim) ==
    /\ pc = "idle"
    /\ probe_address' = pa
    /\ probe_data' = pd
    /\ trim_netlist' = trim
    /\ trim_sp_file' = prepare_netlist(trim, trim_calls).trim_sp_file
    /\ trim_calls' = prepare_netlist(trim, trim_calls).trim_calls
    /\ sim_sp_file' = prepare_netlist(trim, trim_calls).sim_sp_file
    /\ pc' = "probe"
    /\ UNCHANGED <<word_size, addr_size, slews, loads, period, load, slew, cycles,
                   stim_file, search, locals, error, sim, run_sim_calls>>

SetPeriod(p) ==
    /\ pc = "probe"
    /\ period' = p
    /\ UNCHANGED <<prog, load, slew, trim_sp_file, sim_sp_file, cycles, stim_file,
                   search, locals, pc, error, sim, run_sim_calls, trim_calls>>

WriteDelayStimulus ==
    /\ pc = "probe"
    /\ LET chk == check_arguments(probe_address, probe_data, word_size, addr_size)
           c == create_test_cycles(cycles, probe_address, period, word_size, addr_size)
           bad == StimulusError(chk, c)
       IN  IF bad # ""
           THEN /\ cycles' = IF chk # "" THEN cycles ELSE c
                /\ pc' = "error"
                /\ error' = bad
                /\ UNCHANGED stim_file
           ELSE /\ cycles' = c
                /\ stim_file' = write_delay_stimulus(c, period, load, slew, trim_sp_file)
                /\ UNCHANGED <<pc, error>>
    /\ UNCHANGED <<prog, period, load, slew, trim_sp_file, sim_sp_file, search, locals,
                   sim, run_sim_calls, trim_calls>>

WritePowerStimulus(trim) ==
    /\ pc = "probe"
    /\ LET chk == check_arguments(probe_address, probe_data, word_size, addr_size)
           c == create_test_cycles(cycles, probe_address, period, word_size, addr_size)
           bad == StimulusError(chk, c)
       IN  IF bad # ""
           THEN /\ cycles' = IF chk # "" THEN cycles ELSE c
                /\ pc' = "error"
                /\ error' = bad
                /\ UNCHANGED stim_file
           ELSE /\ cycles' = c
                /\ stim_file' = write_power_stimulus(trim, period, load,
                                                     trim_sp_file, sim_sp_file,
                                                     word_size, addr_size)
                /\ UNCHANGED <<pc, error>>
    /\ UNCHANGED <<prog, period, load, slew, trim_sp_file, sim_sp_file, search, locals,
                   sim, run_sim_calls, trim_calls>>

\* ---------------------------------------------------------------------
\* analytical_delay(sram, slews, loads): the table of the analytical models
\* of the sram.  The sram collaborator is a stub whose delay tells the slew
\* and the load it was asked for.
BankDelay(sl, ld) == [delay |-> 10 * sl + ld, slew |-> sl]
AnalyticalPower == [dynamic |-> 5, leakage |-> 2]
AnalyticalSweeps ==
    { <<<<1, 2>>, <<3, 1>>>>, <<<<2>>, <<1>>>>, <<<<>>, <<3>>>>, <<<<2>>, <<>>>> }

\* entry n (0-based) of a list filled by the loops, slew outer, load inner
AnalyticalEntry(sls, lds, n) ==
    BankDelay(At(sls, n \div Len(lds)), At(lds, n % Len(lds)))
AnalyticalTable(sls, lds) ==
    LET points == Len(sls) * Len(lds)
        delays == [n \in 1..points |-> AnalyticalEntry(sls, lds, n - 1).delay]
        slws == [n \in 1..points |-> AnalyticalEntry(sls, lds, n - 1).slew]
    IN  [min_period |-> 0,
         delay_lh |-> delays, delay_hl |-> delays, slew_lh |-> slws, slew_hl |-> slws,
         read0_power |-> AnalyticalPower.dynamic, read1_power |-> AnalyticalPower.dynamic,
         write0_power |-> AnalyticalPower.dynamic, write1_power |-> AnalyticalPower.dynamic,
         leakage_power |-> AnalyticalPower.leakage]

\* The loops call set_load_slew for every pair, so the load and the slew of
\* the object are those of the last pair; when no pair is visited the loop
\* variable load is unbound at the call of sram.analytical_power.
AnalyticalDelay(sls, lds) ==
    /\ pc = "probe"
    /\ IF sls = <<>> \/ lds = <<>>
       THEN /\ pc' = "error"
            /\ error' = "UnboundLocalError: local variable 'load' referenced before assignment"
            /\ UNCHANGED <<load, slew, char_data>>
       ELSE /\ load' = lds[Len(lds)]
            /\ slew' = sls[Len(sls)]
            /\ char_data' = AnalyticalTable(sls, lds)
            /\ pc' = "analytical"
            /\ UNCHANGED error
    /\ UNCHANGED <<prog, period, trim_sp_file, sim_sp_file, cycles, stim_file, search,
                   feasible_delay_lh, feasible_delay_hl, min_period,
                   full_array_leakage, trim_array_leakage, slew_i, load_i,
                   sim, run_sim_calls, trim_calls>>

InitCycles ==
    /\ word_size \in 1..MaxWordSize /\ addr_size \in 1..MaxAddrSize
    /\ probe_address = <<>> /\ probe_data = 0 /\ trim_netlist = FALSE
    /\ slews = <<>> /\ loads = <<>>
    /\ period = 0 /\ load = 0 /\ slew = 0
    /\ trim_sp_file = "" /\ sim_sp_file = ""
    /\ cycles = NoCycles(word_size, addr_size)
    /\ stim_file = NoStimulus
    /\ pc = "idle" /\ error = ""
    /\ time_out = 0 /\ feasible_period = 0
    /\ ub_period = 0 /\ lb_period = 0 /\ target_period = 0
    /\ leakage_power = 0
    /\ feasible_delay_lh = 0 /\ feasible_delay_hl = 0 /\ min_period = 0
    /\ full_array_leakage = 0 /\ trim_array_leakage = 0
    /\ char_data = EmptyTable
    /\ slew_i = 0 /\ load_i = 0
    /\ run_sim_calls = 0 /\ trim_calls = 0
    /\ sim = AnySim

NextCycles ==
    \/ \E pa \in ProbeAddresses, pd \in ProbeBits, trim \in BOOLEAN : SetProbe(pa, pd, trim)
    \/ \E p \in Periods : SetPeriod(p)
    \/ WriteDelayStimulus
    \/ \E trim \in BOOLEAN : WritePowerStimulus(trim)
    \/ \E sw \in AnalyticalSweeps : AnalyticalDelay(sw[1], sw[2])

SpecCycles == InitCycles /\ [][NextCycles]_vars

\* =====================================================================
\* Properties

FeasibleTimedOut == error = "Timed out, could not find a feasible period."
MinPeriodTimedOut == error = "Timed out, could not converge on minimum period."

\* a sweep simulation has been run: in the sweep loops the stimulus last
\* written is a delay stimulus only after run_delay_simulation wrote it
SweepSimulated == pc \in {"sweep", "done"} /\ stim_file.kind = "delay"

\* C1 (as stated): every delay simulation of the sweep is run with the
\* clock period equal to the minimum period find_min_period returned and
\* the table stores as min_period.
C1_SweepAtMinPeriod ==
    SweepSimulated => stim_file.period = min_period

\* C5 (as stated): the fatal time-out of find_feasible_period is raised
\* only after 8 delay simulations have been run and have failed.
C5_EightAttempts == FeasibleTimedOut => run_sim_calls = FeasibleTimeOut

\* C6 (as stated): the fatal time-out of find_min_period is raised only
\* after 25 trial simulations have been run without convergence.
C6_TwentyFiveTrials == MinPeriodTimedOut => run_sim_calls = MinPeriodTimeOut

\* C7: both searches terminate whatever the simulator does.  time_out is a
\* variant of each loop: a step that stays in the loop leaves it strictly
\* smaller and still positive, so no loop runs more steps than its budget;
\* every other step leaves the loop, by returning or in a fatal error.
InSearch == pc \in {"find_feasible_period", "find_min_period"}
SearchStep == InSearch /\ pc' = pc
C7_SearchesTerminate ==
    [][InSearch => (\/ SearchStep /\ time_out' < time_out /\ time_out' > 0
                    \/ pc' # pc /\ pc' \in {"find_min_period", "power_full", "error"})]_vars
\* the last iteration the budget of find_min_period allows, after
\* iterations that did not converge
C7_Witness == pc = "find_min_period" /\ time_out = 1 /\ run_sim_calls = MinPeriodTimeOut - 1

\* ---------------------------------------------------------------------
\* The cycle list after a call of create_test_cycles that returned
CyclesBuilt == cycles.err = "" /\ cycles.cycle_times # <<>>

CycleCount(c, n) ==
    /\ Len(c.cycle_times) = n /\ Len(c.cycle_comments) = n
    /\ Len(c.web_values) = n /\ Len(c.oeb_values) = n /\ Len(c.csb_values) = n
    /\ \A i \in DOMAIN c.data_values : Len(c.data_values[i]) = n
    /\ \A i \in DOMAIN c.addr_values : Len(c.addr_values[i]) = n

\* C8 (as stated): after every call of create_test_cycles the cycle list
\* and every per-cycle control list have length 10.
C8_TenCycles == CyclesBuilt => CycleCount(cycles, 10)

\* C8 (amended): after every call of create_test_cycles the cycle list,
\* the comments, the three control lists and every data and address
\* stream have length 11: the ten cycles up to the read of the written 1
\* and the idle cycle that follows it.
C8_ElevenCycles == CyclesBuilt => CycleCount(cycles, 11)
C8_Witness == CyclesBuilt /\ stim_file.kind = "delay" /\ Len(cycles.cycle_times) = 11
              /\ word_size = MaxWordSize /\ addr_size = MaxAddrSize

\* the operation of cycle i (0-based), by its control values
CycleKind(c, i) ==
    IF At(c.csb_values, i) = 0 /\ At(c.web_values, i) = 0 /\ At(c.oeb_values, i) = 1
    THEN "write"
    ELSE IF At(c.csb_values, i) = 0 /\ At(c.web_values, i) = 1 /\ At(c.oeb_values, i) = 0
    THEN "read"
    ELSE "idle"
ValidIndex(c, i) == 0 <= i /\ i < Len(c.cycle_times)

\* C9: after every call of create_test_cycles the four remembered indices
\* are positions of the cycle list, and the cycles at write0_cycle,
\* write1_cycle, read0_cycle, read1_cycle are a write, a write, a read and
\* a read.
C9_IndexKinds ==
    CyclesBuilt =>
        /\ ValidIndex(cycles, cycles.write0_cycle)
        /\ ValidIndex(cycles, cycles.write1_cycle)
        /\ ValidIndex(cycles, cycles.read0_cycle)
        /\ ValidIndex(cycles, cycles.read1_cycle)
        /\ CycleKind(cycles, cycles.write0_cycle) = "write"
        /\ CycleKind(cycles, cycles.write1_cycle) = "write"
        /\ CycleKind(cycles, cycles.read0_cycle) = "read"
        /\ CycleKind(cycles, cycles.read1_cycle) = "read"
C9_Witness == CyclesBuilt /\ stim_file.kind = "power" /\ cycles.read1_cycle = 9
              /\ cycles.write0_cycle = 2

\* ---------------------------------------------------------------------
\* An ideal memory replaying the cycle list: a write cycle stores its data
\* word at its address, a read cycle outputs the word stored at its
\* address, an idle cycle does nothing.  A bit never written reads as 2.
WordAt(streams, i) == [b \in DOMAIN streams |-> At(streams[b], i)]
Addresses(c) == [DOMAIN c.addr_values -> {0, 1}]
RECURSIVE MemoryBefore(_, _)
MemoryBefore(c, i) ==
    IF i = 0 THEN [a \in Addresses(c) |-> [b \in DOMAIN c.data_values |-> 2]]
    ELSE LET m == MemoryBefore(c, i - 1)
         IN  IF CycleKind(c, i - 1) = "write"
             THEN [m EXCEPT ![WordAt(c.addr_values, i - 1)] = WordAt(c.data_values, i - 1)]
             ELSE m
ReadOutput(c, i) == MemoryBefore(c, i)[WordAt(c.addr_values, i)]
Complement(a) == [b \in DOMAIN a |-> 1 - a[b]]
ReadsBeforeRead(c, i, before, at) ==
    /\ CycleKind(c, i) = "read" /\ CycleKind(c, i - 1) = "read"
    /\ WordAt(c.addr_values, i - 1) = Complement(WordAt(c.addr_values, i))
    /\ \A b \in DOMAIN c.data_values :
          ReadOutput(c, i - 1)[b] = before /\ ReadOutput(c, i)[b] = at

\* C10: replayed on an ideal memory, the read at read0_cycle outputs 0 on
\* every data bit (so on the probe bit) and the read of the cycle before
\* it, at the complement address, outputs 1; the read at read1_cycle
\* outputs 1 and the read of the cycle before it outputs 0.
C10_RoundTrip ==
    CyclesBuilt =>
        /\ ReadsBeforeRead(cycles, cycles.read0_cycle, 1, 0)
        /\ ReadsBeforeRead(cycles, cycles.read1_cycle, 0, 1)
C10_Witness == CyclesBuilt /\ probe_address = <<"0", "1">> /\ probe_data = 1
               /\ word_size = 2 /\ addr_size = 2
               /\ ReadOutput(cycles, cycles.read1_cycle)[probe_data + 1] = 1

\* ---------------------------------------------------------------------
\* The searches with a deterministic simulator

\* C2: with a deterministic simulator the upper bound of find_min_period
\* is feasible at every iteration, the entry of the loop included:
\* simulated again at ub_period, try_period succeeds against the reference
\* delays.  So does the period find_min_period returns.
C2_UpperBoundFeasible ==
    /\ pc = "find_min_period" =>
          try_period(DetOut(sim, ub_period), ub_period,
                     feasible_delay_lh, feasible_delay_hl)
    /\ pc = "power_full" =>
          try_period(DetOut(sim, min_period), min_period,
                     feasible_delay_lh, feasible_delay_hl)
\* a period returned after trials that succeeded and a last trial that failed
C2_Witness ==
    /\ pc = "power_full" /\ min_period # period
    /\ min_period % NominalPeriod # 0

\* the largest of the four timing measurements of a valid output
LargestTiming(out) ==
    Max2(Max2(out.delay_hl.val, out.delay_lh.val), Max2(out.slew_hl.val, out.slew_lh.val))
\* the simulator fails below the threshold b1 and returns one valid output
\* from b1 on
ThresholdMock ==
    /\ sim.kind = "det" /\ sim.b1 = sim.b2
    /\ sim.outs[1] = AllFailed
    /\ sim.outs[3] \in {ValidSmall, ValidLarge}
\* the threshold in ticks, for a threshold of at most 64 times the seed
Threshold == sim.b1.n * NominalPeriod + sim.b1.t
ValidProbe == check_arguments(probe_address, probe_data, word_size, addr_size) = ""
WithinFivePercent(a, b) == 20 * Abs(a - b) <= Max2(a, b)

\* the mock of C3: the threshold is no larger than the nominal seed and the
\* valid timings are no larger than the threshold
C3Mock ==
    /\ ThresholdMock /\ NoLater(sim.b1, Breakpoint(1, 0))
    /\ LargestTiming(sim.outs[3]) <= Threshold
C3Converges ==
    /\ ~FeasibleTimedOut /\ ~MinPeriodTimedOut
    /\ pc = "find_feasible_period" => (feasible_period = 1 /\ run_sim_calls = 0)
    /\ pc = "power_full" =>
          (min_period >= Threshold /\ WithinFivePercent(min_period, Threshold))

\* C3 (as stated): with the threshold mock, for every T > 0 no larger than
\* the seed, find_feasible_period converges at the seed and find_min_period
\* returns a period p >= T within 5% of T.
C3_AnyThreshold == C3Mock => C3Converges

\* the lower bound find_min_period holds when it returns: the period of the
\* last trial when that trial failed, the lower bound before it otherwise
LastLower == IF min_period' = ub_period THEN period' ELSE lb_period
MinPeriodReturns == pc = "find_min_period" /\ pc' = "power_full"

\* C3 (amended): with the threshold mock and a T > 0 no larger than the
\* seed, find_feasible_period converges at the seed (its first simulation
\* succeeds, it never times out).  Whenever find_min_period returns, the
\* period p it returns is feasible and its last lower bound is not, and
\* the two are within 5% of p: lower < T <= p and p - lower <= p / 20, so
\* p is within 5% of every T between them.  For a T of at least 2^-19 of
\* the seed find_min_period does return: it never ends in the convergence
\* time-out.  For a T of one tick (2^-24 of the seed) it never returns:
\* every trial succeeds, the lower bound stays 0 and the only way out of
\* the loop is the convergence time-out.
C3_ReturnsWithinTolerance ==
    [][C3Mock =>
         /\ ~FeasibleTimedOut'
         /\ pc' = "find_feasible_period" => (feasible_period' = 1 /\ run_sim_calls' = 0)
         /\ MinPeriodReturns =>
               /\ LastLower < Threshold /\ Threshold <= min_period'
               /\ 20 * (min_period' - LastLower) <= min_period'
               /\ WithinFivePercent(min_period', Threshold)
         /\ Threshold >= ReachTicks => ~MinPeriodTimedOut'
         /\ (Threshold = 1 /\ pc = "find_min_period") =>
               /\ lb_period' = 0
               /\ pc' \in {"find_min_period", "error"}
               /\ pc' = "error" => MinPeriodTimedOut'
      ]_vars
\* the smallest threshold of the bound: find_min_period has returned a
\* period within 5% of 2^-19 of the seed, after trials that failed
C3_Witness ==
    /\ C3Mock /\ Threshold = ReachTicks
    /\ pc = "power_full" /\ min_period >= ReachTicks /\ min_period # period
    /\ 20 * (min_period - ReachTicks) <= min_period

\* the search for a feasible period has neither used up its budget nor
\* returned a period below the threshold
C4Returns ==
    /\ ~FeasibleTimedOut
    /\ pc = "find_feasible_period" => CountDown(time_out) > 0
    /\ pc = "find_min_period" => (error = "" /\ ~Below(ub_period, sim.b1))
\* the search for a feasible period has not returned, and once it has run
\* a simulation it ends in the time-out only
C4NeverReturns ==
    /\ pc \in {"idle", "find_feasible_period", "error"}
    /\ (pc = "error" /\ run_sim_calls > 0) => FeasibleTimedOut

\* C4 (as stated): with a simulator that fails below a threshold T and
\* succeeds from T on, find_feasible_period reaches a feasible period and
\* returns successfully, for any T: no iteration finds the budget used up.
C4_AnyThreshold == (ThresholdMock /\ ValidProbe) => C4Returns

\* C4 (amended): it reaches a feasible period and returns successfully
\* for any T of at most 64 times the seed: every iteration has budget left
\* for its simulation, so the loop ends by returning and never in the fatal
\* time-out.  For a T of more than 128 times the seed, beyond every period
\* a budget of 8 attempts can try, it never returns: every simulation fails
\* and the loop ends in the fatal time-out.
C4_ThresholdInBudget ==
    (ThresholdMock /\ ValidProbe) =>
        /\ NoLater(sim.b1, Breakpoint(64, 0)) => C4Returns
        /\ ~NoLater(sim.b1, Breakpoint(128, 0)) => C4NeverReturns
\* the largest threshold of the bound: the first feasible period is 64
\* times the seed
C4_Witness ==
    /\ ThresholdMock /\ sim.b1 = Breakpoint(64, 0)
    /\ pc = "find_min_period" /\ ub_period = 64 * NominalPeriod /\ run_sim_calls = 0
\* the search has ended in the time-out with a threshold beyond 128 times
\* the seed
C4_BeyondWitness ==
    /\ ThresholdMock /\ ValidProbe /\ sim.b1 = Breakpoint(128, 1)
    /\ FeasibleTimedOut

\* ---------------------------------------------------------------------
\* Input validation

AddressErrors ==
    { "Probe Address is not of binary form",
      "Probe Address's number of bits does not correspond to given SRAM",
      "Non-binary address string" }
ProbeBitError == "Given probe_data is not an integer to specify a data bit"
\* wrong length for the address bus, or a character other than "0" and "1"
MalformedAddress ==
    \/ Len(probe_address) # addr_size
    \/ \E i \in 1..Len(probe_address) : probe_address[i] # "0" /\ probe_address[i] # "1"
SweepGiven == loads # <<>> /\ slews # <<>>
\* nothing has been written for the simulator and it has not been run
NothingSimulated == stim_file = NoStimulus /\ run_sim_calls = 0

\* C11: analyze called with a malformed probe address (and a sweep to
\* run) ends in the fatal validation error of the address, raised by
\* check_arguments or by create_test_cycles in the first iteration of
\* find_feasible_period; no stimulus is written and run_sim is not reached.
C11_MalformedAddressRejected ==
    (pc # "idle" /\ MalformedAddress /\ SweepGiven) =>
        /\ NothingSimulated
        /\ \/ pc = "find_feasible_period" /\ time_out = FeasibleTimeOut
           \/ pc = "error" /\ error \in AddressErrors
\* an address int(.., 2) accepts, rejected when the cycles are made
C11_Witness ==
    /\ probe_address = <<"+", "1">> /\ pc = "error"
    /\ error = "Non-binary address string" /\ NothingSimulated

\* C12 (as stated): a probe bit index below 0 or at least the word width
\* ends in the fatal validation error before any stimulus is written or
\* simulated.
C12_BitIndexRejected ==
    (pc # "idle" /\ ~MalformedAddress /\ SweepGiven
        /\ (probe_data < 0 \/ probe_data >= word_size)) =>
        /\ NothingSimulated
        /\ \/ pc = "find_feasible_period" /\ time_out = FeasibleTimeOut
           \/ pc = "error" /\ error = ProbeBitError

\* ---------------------------------------------------------------------
\* The table of analyze

TimingMetrics == {"delay_lh", "delay_hl", "slew_lh", "slew_hl"}
PowerMetrics == {"read0_power", "read1_power", "write0_power", "write1_power"}
ListMetrics == TimingMetrics \cup PowerMetrics
SweepPoints == Len(slews) * Len(loads)
\* the sweep points simulated so far
PointsDone == slew_i * Len(loads) + load_i

\* C13: analyze never returns a partial table.  While the sweep runs every
\* list metric has one entry for each point simulated so far; a run ends
\* either in an error or, when analyze returns, with an entry of every
\* sweep point in every list metric, whatever the simulator gave.
C13_NoPartialTable ==
    /\ pc = "sweep" =>
          /\ PointsDone < SweepPoints
          /\ \A k \in ListMetrics : Len(char_data[k]) = PointsDone
    /\ pc = "done" => \A k \in ListMetrics : Len(char_data[k]) = SweepPoints
    /\ pc = "error" => error # ""
\* analyze returned from a sweep of more than one point
C13_Witness ==
    /\ pc = "done" /\ SweepPoints = 2 /\ sim.kind = "any"
    /\ Len(char_data.write1_power) = 2

\* the slew and the load of entry n (0-based) of a list metric
SlewOf(n) == At(slews, n \div Len(loads))
LoadOf(n) == At(loads, n % Len(loads))

\* C14: when analyze returns, each of the eight list metrics has
\* |slews| x |loads| entries, entry i*|loads|+j is the measurement of the
\* simulation run with slews[i] and loads[j] (the echo simulator's timing
\* tells both), and min_period and leakage_power are numbers, not lists.
C14_TableShape ==
    pc = "done" =>
        /\ \A k \in ListMetrics : Len(char_data[k]) = SweepPoints
        /\ \A i \in 0..(Len(slews) - 1), j \in 0..(Len(loads) - 1) :
              LET n == i * Len(loads) + j
              IN  /\ At(char_data.slew_hl, n) = At(slews, i)
                  /\ At(char_data.slew_lh, n) = At(loads, j)
                  /\ At(char_data.delay_hl, n) = 10 * At(slews, i) + At(loads, j)
                  /\ At(char_data.delay_lh, n) = 10 * At(slews, i) + At(loads, j) + 1
        /\ char_data.min_period \in Nat
        /\ char_data.leakage_power \in Nat
\* a returned table of three slews by two loads
C14_Witness ==
    /\ pc = "done" /\ sim.kind = "echo" /\ slews = <<2, 3, 1>> /\ loads = <<1, 2>>
    /\ char_data.slew_hl = <<2, 2, 3, 3, 1, 1>>
    /\ char_data.slew_lh = <<1, 2, 1, 2, 1, 2>>

\* C15: every power entry of the table is the power that sweep
\* simulation measured, minus the leakage measured on the trimmed netlist,
\* plus the leakage measured on the full netlist; the delay and slew
\* entries are the measured values.
C15_PowerCorrected ==
    (pc \in {"sweep", "done"} /\ sim.kind = "echo") =>
        \A k \in ListMetrics : \A n \in 0..(Len(char_data[k]) - 1) :
            LET measured == EchoValues(LoadOf(n), SlewOf(n))[k]
            IN  IF k \in PowerMetrics
                THEN At(char_data[k], n) = measured - sim.leak_trim.val + sim.leak_full.val
                ELSE At(char_data[k], n) = measured
\* 0.42 - 0.05 + 0.08 = 0.45, in the units of the model
C15_Witness ==
    /\ pc = "done" /\ sim.kind = "echo"
    /\ sim.leak_trim = Float(5) /\ sim.leak_full = Float(8)
    /\ slews = <<2>> /\ loads = <<1, 3, 2>>
    /\ char_data.read0_power = <<124, 126, 125>>

\* ---------------------------------------------------------------------
\* The simulation runner

TypeError == error = "TypeError: can't multiply sequence by non-int of type 'float'"
SweepFailed == error = "Couldn't run a simulation."
LeakageFailed == error = "Could not measure leakage power."

\* the output the deterministic simulator gave for the stimulus last written
LastOutput == SimOut(sim, stim_file.period, stim_file.load, stim_file.slew)
HasFailureMarker(out) == \E k \in DOMAIN out : ~IsFloat(out[k])
\* the states that a call of run_delay_simulation leaves: the feasibility
\* loop going on or just returned, the sweep going on or ended, or the
\* error that followed the call
AfterDelayRun ==
    /\ stim_file.kind = "delay"
    /\ \/ pc = "find_feasible_period"
       \/ pc = "find_min_period" /\ run_sim_calls = 0
       \/ pc \in {"sweep", "done"}
       \/ pc = "error" /\ (TypeError \/ SweepFailed
                            \/ error = "Negative delay may not be possible")
\* the caller was given (False, results): the feasibility loop goes on
\* with the doubled period, the sweep ends in its fatal check
SurfacedAsInvalid == pc = "find_feasible_period" \/ SweepFailed

\* C16 (as stated): whenever one of the eight measurements of an output is
\* the failure marker, run_delay_simulation hands (False, results) to its
\* caller: it neither reports success nor ends in an unhandled error.
C16_FailureSurfaced ==
    (sim.kind = "echo" /\ AfterDelayRun /\ HasFailureMarker(LastOutput))
        => SurfacedAsInvalid

\* C17: the runner never retries.  A step that reaches a runner
\* (run_delay_simulation, try_period, one measurement of
\* run_power_simulation) calls the simulator exactly once, whatever the
\* result: the count of the search in progress goes up by one, or starts
\* again at 0 when the search returns; no other step calls the simulator.
InputErrors == AddressErrors \cup {ProbeBitError}
ReachesRunner ==
    /\ pc \in {"find_feasible_period", "find_min_period", "power_full",
               "power_trim", "sweep"}
    /\ ~FeasibleTimedOut' /\ ~MinPeriodTimedOut' /\ error' \notin InputErrors
C17_NoRetry ==
    [][IF ReachesRunner
       THEN \/ run_sim_calls' = run_sim_calls + 1
            \/ pc' \notin {pc, "error"} /\ run_sim_calls' = 0
       ELSE run_sim_calls' = run_sim_calls]_vars
\* the second trial of find_min_period has run, after an invalid first one
C17_Witness ==
    /\ pc = "find_min_period" /\ run_sim_calls = 2 /\ sim.kind = "any"
    /\ lb_period = NominalPeriod \div 2

\* C18: every simulation of find_feasible_period and find_min_period is
\* run with the largest load and the largest slew of the sweep, never
\* with the 0 of the constructor or another value of the sweep.
Largest(list, v) ==
    /\ \E i \in DOMAIN list : list[i] = v
    /\ \A i \in DOMAIN list : list[i] <= v
\* the stimulus last written is one of a search
AfterSearchRun ==
    /\ stim_file.kind = "delay"
    /\ \/ pc \in {"find_feasible_period", "find_min_period", "power_full"}
       \/ FeasibleTimedOut \/ MinPeriodTimedOut
C18_SearchAtMaxima ==
    AfterSearchRun =>
        /\ Largest(loads, stim_file.load) /\ Largest(slews, stim_file.slew)
        /\ load = stim_file.load /\ slew = stim_file.slew
\* a trial of find_min_period, the largest values not first in their lists
C18_Witness ==
    /\ pc = "find_min_period" /\ run_sim_calls >= 1
    /\ slews = <<2, 3, 1>> /\ loads = <<1, 2>>
    /\ stim_file.slew = 3 /\ stim_file.load = 2

\* C19: run_power_simulation measures the leakage twice, first with the
\* full netlist and then with the trimmed one; a failure marker from
\* either ends the run at once: the table's lists are still empty, the
\* stimulus last written is the power stimulus, and no step follows.
NoEntries == \A k \in ListMetrics : char_data[k] = <<>>
C19_LeakageTwice ==
    [][/\ ~LeakageFailed
       /\ pc = "power_full" =>
             /\ run_sim_calls = 0 /\ run_sim_calls' = 1
             /\ stim_file'.kind = "power" /\ stim_file'.include = sim_sp_file
             /\ \/ pc' = "power_trim" /\ error' = ""
                \/ pc' = "error" /\ LeakageFailed'
       /\ pc = "power_trim" =>
             /\ run_sim_calls = 1
             /\ stim_file'.kind = "power" /\ stim_file'.include = trim_sp_file
             /\ \/ pc' = "sweep" /\ error' = "" /\ run_sim_calls' = 0
                \/ pc' = "error" /\ LeakageFailed' /\ run_sim_calls' = 2
       /\ LeakageFailed' => (pc \in {"power_full", "power_trim"} /\ NoEntries')
      ]_vars
\* the second measurement, on the trimmed netlist, gave the failure marker
C19_Witness ==
    /\ LeakageFailed /\ run_sim_calls = 2 /\ trim_netlist
    /\ stim_file.kind = "power" /\ stim_file.include = "reduced.sp"

\* ---------------------------------------------------------------------
\* The tolerance comparison

SameBothWays(a, b) == relative_compare(a, b) <=> relative_compare(b, a)

\* C20: relative_compare gives the same answer with its two values
\* exchanged, for the values the searches give it: the bounds of
\* find_min_period before and after each possible outcome of the next
\* trial, and each delay a trial may measure against the reference delays.
C20_Symmetric ==
    /\ pc = "find_min_period" =>
          LET target == Midpoint(ub_period, lb_period)
          IN  /\ SameBothWays(ub_period, lb_period)
              /\ SameBothWays(target, lb_period)
              /\ SameBothWays(ub_period, target)
              /\ \A d \in TrialDelays : \A i \in 1..2 :
                    IsFloat(d[i]) =>
                        /\ SameBothWays(d[i].val, feasible_delay_lh)
                        /\ SameBothWays(d[i].val, feasible_delay_hl)
    /\ pc = "power_full" => SameBothWays(min_period, period)
\* find_min_period returned after a failed last trial: the bounds, the
\* returned upper one and the failed trial period, are within tolerance
C20_Witness ==
    /\ pc = "power_full" /\ sim.kind = "any"
    /\ period > 0 /\ period < min_period
    /\ relative_compare(min_period, period) /\ relative_compare(period, min_period)

\* ---------------------------------------------------------------------
\* The analytical table

AnalyticalStep == \E sw \in AnalyticalSweeps : AnalyticalDelay(sw[1], sw[2])

\* C21 (as stated): analytical_delay calls neither the trimming nor the
\* simulator, writes no stimulus and leaves the period, the load, the slew
\* and the probe of the object as they were.
C21_AnalyticalPure ==
    [][AnalyticalStep =>
          UNCHANGED <<period, load, slew, probe_address, probe_data,
                      stim_file, cycles, run_sim_calls, trim_calls>>]_vars

\* ---------------------------------------------------------------------
\* The messages of the time-outs

Carries(v) ==
    LET values == ErrorValues(error, probe_address, slew, load)
    IN  \E i \in DOMAIN values : values[i] = v

\* C22 (as stated): the fatal time-out of find_feasible_period carries the
\* last period tried, and the fatal time-out of find_min_period carries
\* the last lower and upper bounds.
C22_TimeOutCarriesPeriod ==
    /\ FeasibleTimedOut => Carries(feasible_period * NominalPeriod)
    /\ MinPeriodTimedOut => (Carries(lb_period) /\ Carries(ub_period))

\* ---------------------------------------------------------------------
\* The cycle list from one stimulus to the next

\* a stimulus has been written and the call that wrote it returned
StimulusWritten == CyclesBuilt /\ stim_file.kind \in {"delay", "power"}
FreshCycles ==
    create_test_cycles(NoCycles(word_size, addr_size), probe_address,
                       stim_file.period, word_size, addr_size)

\* C23: the cycle list is made anew for every stimulus.  After any number
\* of calls of write_delay_stimulus and write_power_stimulus with any
\* periods, the lists have the length they have after a first call, and
\* the time of cycle i is i times the period of the stimulus just written.
C23_RebuiltFresh ==
    StimulusWritten =>
        /\ Len(cycles.cycle_times) = Len(FreshCycles.cycle_times)
        /\ CycleCount(cycles, Len(FreshCycles.cycle_times))
        /\ \A i \in 0..(Len(cycles.cycle_times) - 1) :
              At(cycles.cycle_times, i) = TimeTimes(i, stim_file.period)
        /\ cycles.t_current = TimeTimes(Len(cycles.cycle_times), stim_file.period)
\* a stimulus written for the period 3, the period of the object changed
\* since: the last cycle is at 10 periods
C23_Witness ==
    /\ StimulusWritten /\ period # stim_file.period /\ stim_file.period = 3
    /\ At(cycles.cycle_times, 10) = [n |-> 0, t |-> 30]

\* ---------------------------------------------------------------------
\* The period find_feasible_period returns

\* the k-th period of the doubling sequence, the seed being the 0-th
Doubling(k) == NominalPeriod * 2^k
\* what run_delay_simulation gives at a period, the simulator deterministic
AttemptAt(p) == run_delay_simulation(SimOut(sim, p, load, slew), p)
AllFailedBefore(k) == \A j \in 0..(k - 1) : AttemptAt(Doubling(j)).status = "invalid"
\* find_feasible_period has just returned to analyze
FeasibleReturned == pc = "find_min_period" /\ time_out = MinPeriodTimeOut

\* C24: with a deterministic simulator, while find_feasible_period loops
\* after k failed attempts its period is seed * 2^k and every period of
\* the doubling sequence before it failed; when it returns, the period of
\* the object is seed * 2^k for the k attempts that failed, that period is
\* the first feasible one of the sequence, and the reference delays are
\* the delays measured at it.
C24_FirstFeasible ==
    /\ pc = "find_feasible_period" =>
          /\ feasible_period = 2^run_sim_calls
          /\ AllFailedBefore(run_sim_calls)
    /\ FeasibleReturned =>
          \E k \in 0..(FeasibleTimeOut - 2) :
              /\ period = Doubling(k) /\ ub_period = period
              /\ AllFailedBefore(k)
              /\ AttemptAt(period).status = "ok"
              /\ feasible_delay_lh = AttemptAt(period).result.delay_lh
              /\ feasible_delay_hl = AttemptAt(period).result.delay_hl
\* two attempts failed and the third, at 4 times the seed, succeeded
C24_Witness ==
    /\ FeasibleReturned /\ period = Doubling(2)
    /\ AttemptAt(Doubling(1)).status = "invalid"
    /\ feasible_delay_lh = 104 /\ feasible_delay_hl = 100

\* ---------------------------------------------------------------------
\* The trials of find_min_period

\* the condition of the claim, stated on its own: the four measurements
\* are numbers, none is larger than the trial period, and each delay is
\* within 5% of its reference
TrialPasses(out, p, ref_lh, ref_hl) ==
    /\ \A k \in TimingMetrics : IsFloat(out[k])
    /\ \A k \in TimingMetrics : out[k].val <= p
    /\ WithinFivePercent(out.delay_lh.val, ref_lh)
    /\ WithinFivePercent(out.delay_hl.val, ref_hl)
\* a step of find_min_period that ran its trial
TrialRan == pc = "find_min_period" /\ pc' # "error"

\* C25: try_period returns True exactly when the four measurements are
\* numeric, none is larger than the trial period and both delays are
\* within 5% of their reference delays; a trial that passed moves the
\* upper bound to the trial period and leaves the lower bound, a trial
\* that did not pass moves the lower bound and leaves the upper bound.
C25_TrialOutcome ==
    [][TrialRan =>
          LET target == Midpoint(ub_period, lb_period)
              out == SimOut(sim, target, load, slew)
              pass == TrialPasses(out, target, feasible_delay_lh, feasible_delay_hl)
          IN  /\ \A o \in TrialOutputs \cup {out} :
                    try_period(o, target, feasible_delay_lh, feasible_delay_hl)
                        <=> TrialPasses(o, target, feasible_delay_lh, feasible_delay_hl)
              /\ pc' = "find_min_period" =>
                    /\ ub_period' = (IF pass THEN target ELSE ub_period)
                    /\ lb_period' = (IF pass THEN lb_period ELSE target)
              /\ pc' = "power_full" =>
                    min_period' = (IF pass THEN target ELSE ub_period)]_vars
\* a trial whose measurements are numbers no larger than the period failed
\* on the tolerance alone, and moved the lower bound
C25_Witness ==
    /\ pc = "find_min_period" /\ sim.kind = "det" /\ lb_period = period
    /\ check_valid_delays(SimOut(sim, period, load, slew), period)
    /\ ~try_period(SimOut(sim, period, load, slew), period,
                   feasible_delay_lh, feasible_delay_hl)

\* ---------------------------------------------------------------------
\* The measure statements

\* the cycle each power window of a delay stimulus is taken at
WindowCycle ==
    [WRITE0_POWER |-> cycles.write0_cycle, WRITE1_POWER |-> cycles.write1_cycle,
     READ0_POWER |-> cycles.read0_cycle, READ1_POWER |-> cycles.read1_cycle]
DelayStimulusWritten == StimulusWritten /\ stim_file.kind = "delay"

\* C26: in every delay stimulus there are four power windows, WRITE0,
\* WRITE1, READ0 and READ1; each starts at the time of its cycle and ends
\* one period later, and the position after its cycle, read for the end,
\* is a position of the cycle list.
C26_PowerWindows ==
    DelayStimulusWritten =>
        /\ DOMAIN stim_file.powers = DOMAIN WindowCycle
        /\ \A w \in DOMAIN WindowCycle :
              /\ ValidIndex(cycles, WindowCycle[w])
              /\ ValidIndex(cycles, WindowCycle[w] + 1)
              /\ stim_file.powers[w].t_initial = At(cycles.cycle_times, WindowCycle[w])
              /\ stim_file.powers[w].t_initial = TimeTimes(WindowCycle[w], stim_file.period)
              /\ stim_file.powers[w].t_final
                    = TimePlus(stim_file.powers[w].t_initial, stim_file.period)
\* the window of the last read, for a period of 3 ticks: from 27 to 30
C26_Witness ==
    /\ DelayStimulusWritten /\ stim_file.period = 3
    /\ stim_file.powers.READ1_POWER
          = [t_initial |-> [n |-> 0, t |-> 27], t_final |-> [n |-> 0, t |-> 30]]

\* C27: in every power stimulus every data and address input is held at
\* 0, chip select, write enable and output enable are held at the supply
\* voltage, the clock is held at 0, the one power window is the second
\* period, from period to 2 * period, and the simulation ends at
\* 2 * period.
C27_LeakageStimulus ==
    stim_file.kind = "power" =>
        /\ \A i \in 1..word_size : stim_file.signals.din[i] = "0"
        /\ \A i \in 1..addr_size : stim_file.signals.addr[i] = "0"
        /\ DOMAIN stim_file.signals.din = 1..word_size
        /\ DOMAIN stim_file.signals.addr = 1..addr_size
        /\ stim_file.signals.csb = "vdd" /\ stim_file.signals.web = "vdd"
        /\ stim_file.signals.oeb = "vdd" /\ stim_file.signals.clk = "0"
        /\ DOMAIN stim_file.powers = {"leakage_power"}
        /\ stim_file.powers.leakage_power.t_initial = TimePlus(TimeZero, stim_file.period)
        /\ stim_file.powers.leakage_power.t_final
              = TimePlus(TimePlus(TimeZero, stim_file.period), stim_file.period)
        /\ stim_file.t_end = stim_file.powers.leakage_power.t_final
        /\ stim_file.delays = <<>>
\* a power stimulus for 64 nominal periods: the window is from 64 to 128
C27_Witness ==
    /\ stim_file.kind = "power" /\ stim_file.period = 64 * NominalPeriod
    /\ word_size = MaxWordSize /\ addr_size = MaxAddrSize
    /\ stim_file.powers.leakage_power.t_initial = [n |-> 64, t |-> 0]
    /\ stim_file.t_end = [n |-> 128, t |-> 0]

\* ---------------------------------------------------------------------
\* The order of the phases of analyze

\* the phase that follows each phase when no fatal error ends the run
Successor ==
    [idle |-> "find_feasible_period", find_feasible_period |-> "find_min_period",
     find_min_period |-> "power_full", power_full |-> "power_trim",
     power_trim |-> "sweep", sweep |-> "done"]
LeakageValues == { o.val : o \in { x \in LeakOutputs : IsFloat(x) } }
\* both leakages are known and min_period is in the table
ReadyForSweep ==
    /\ full_array_leakage \in LeakageValues /\ trim_array_leakage \in LeakageValues
    /\ char_data.leakage_power = full_array_leakage
    /\ char_data.min_period = round_time(min_period) /\ min_period > 0
\* One step of a run: the phase stays or moves to its successor or to the
\* fatal error; the simulation of a step is of the kind of its phase, the
\* full leakage before the trimmed one; the netlist is prepared in the
\* first step only, before anything is simulated; the sweep starts, and
\* goes on, with the leakages known and min_period stored.
PhaseStep ==
    /\ pc' # pc => (pc \in DOMAIN Successor /\ pc' \in {Successor[pc], "error"})
    /\ ReachesRunner =>
          /\ stim_file'.kind = (IF pc \in {"power_full", "power_trim"}
                                THEN "power" ELSE "delay")
          /\ pc = "power_full" => stim_file'.include = sim_sp_file
          /\ pc = "power_trim" => stim_file'.include = trim_sp_file
    /\ pc = "idle" => (NothingSimulated /\ NothingSimulated')
    /\ pc # "idle" => UNCHANGED <<trim_calls, trim_sp_file, sim_sp_file>>
    /\ pc' \in {"sweep", "done"} => ReadyForSweep'
    /\ pc = "sweep" => ReadyForSweep

\* C28 (as stated): in every run of analyze the phases happen in the
\* order preparation, feasibility search, min-period search, the two
\* leakage simulations, sweep, and the trimming collaborator is invoked
\* exactly once, in the preparation.
C28_TrimmedExactlyOnce ==
    [][PhaseStep /\ (pc = "idle" => trim_calls' = 1)]_vars

\* C28 (amended): the phases happen in that order, and the trimming
\* collaborator is invoked in the preparation only: once when
\* OPTS.trim_netlist is set, and not at all when it is not.
C28_PhasesInOrder ==
    [][PhaseStep /\ (pc = "idle" => trim_calls' = (IF trim_netlist' THEN 1 ELSE 0))]_vars
\* a run through every phase with trimming disabled: nothing was trimmed
C28_Witness ==
    /\ pc = "done" /\ sim.kind = "any" /\ ~trim_netlist /\ trim_calls = 0
    /\ ReadyForSweep /\ stim_file.kind = "delay" /\ SweepPoints = 2

\* ---------------------------------------------------------------------
\* The netlist each stimulus includes

\* the power stimulus last written is the one of the full netlist: the
\* first measurement of run_power_simulation returned, or failed
FullLeakageStimulus ==
    /\ stim_file.kind = "power"
    /\ pc = "power_trim" \/ (LeakageFailed /\ run_sim_calls = 1)

\* C29: with trimming disabled the trimming collaborator is never called,
\* the file of the trimmed netlist is the file of the full one, and every
\* stimulus, delay or leakage, includes the untrimmed netlist; with
\* trimming enabled the delay stimuli and the trimmed leakage stimulus
\* include the reduced netlist, which is another file, and the full
\* leakage stimulus alone includes the untrimmed one.
C29_NetlistIncluded ==
    pc # "idle" =>
        /\ sim_sp_file = "sram.sp"
        /\ ~trim_netlist =>
              /\ trim_calls = 0 /\ trim_sp_file = sim_sp_file
              /\ stim_file.kind # "none" => stim_file.include = sim_sp_file
        /\ trim_netlist =>
              /\ trim_calls = 1 /\ trim_sp_file = "reduced.sp"
              /\ stim_file.kind # "none" =>
                    stim_file.include
                        = (IF FullLeakageStimulus THEN sim_sp_file ELSE trim_sp_file)
\* trimming disabled: the leakage stimulus of the trimmed measurement has
\* been written and simulated, and includes the untrimmed netlist
C29_Witness ==
    /\ ~trim_netlist /\ trim_calls = 0 /\ pc = "sweep"
    /\ stim_file.kind = "power" /\ stim_file.include = "sram.sp"

\* ---------------------------------------------------------------------
\* The slews in the trials of find_min_period

\* the slews of an output are numbers no larger than the period
SlewsInPeriod(out, p) ==
    /\ IsFloat(out.slew_hl) /\ IsFloat(out.slew_lh)
    /\ out.slew_hl.val <= p /\ out.slew_lh.val <= p
\* the outputs that agree with out on everything but the slews, the slews
\* being numbers no larger than the period
OtherSlews(out, p) ==
    { [out EXCEPT !.slew_hl = Float(a), !.slew_lh = Float(b)] :
        a \in { v \in {0, 1, 100, p} : v <= p }, b \in { v \in {0, 1, 100, p} : v <= p } }

\* C30: the outcome of a trial does not depend on the slews beyond their
\* being numbers no larger than the trial period.  At every trial, the
\* simulator's output and every output that differs from it in such slews
\* alone give the same answer of try_period, and the step the run takes
\* (the bound that moves, the period returned) is the step of a run whose
\* simulator gave those other slews; so the two runs go through the same
\* bounds and return the same min_period.
C30_SlewIndependent ==
    [][TrialRan =>
          LET target == Midpoint(ub_period, lb_period)
              given == SimOut(sim, target, load, slew)
          IN  \A o \in TrialOutputs \cup {given} :
                 SlewsInPeriod(o, target) =>
                    \A o2 \in OtherSlews(o, target) :
                       LET ok2 == try_period(o2, target, feasible_delay_lh,
                                             feasible_delay_hl)
                       IN  /\ ok2 = try_period(o, target, feasible_delay_lh,
                                               feasible_delay_hl)
                           /\ (o = given /\ pc' = "find_min_period") =>
                                 /\ ub_period' = (IF ok2 THEN target ELSE ub_period)
                                 /\ lb_period' = (IF ok2 THEN lb_period ELSE target)
                           /\ (o = given /\ pc' = "power_full") =>
                                 min_period' = (IF ok2 THEN target ELSE ub_period)]_vars
\* a trial passed with slews of 100 and 1, far from each other and from
\* the tolerance of any reference delay
C30_Witness ==
    /\ pc = "find_min_period" /\ sim.kind = "det" /\ ub_period = period
    /\ run_sim_calls >= 1
    /\ SimOut(sim, period, load, slew) = ValidLarge
    /\ feasible_delay_lh = 104 /\ feasible_delay_hl = 100

\* ---------------------------------------------------------------------
\* The sign of the corrected power

\* a step of the sweep whose simulation was valid
SweepAppends == pc = "sweep" /\ pc' # "error"
Negative(list) == \E i \in DOMAIN list : list[i] < 0

\* C31: nothing guards the sign of the corrected power.  Every valid
\* simulation of the sweep appends measured - trimmed leakage + full
\* leakage to each power list, below 0 when the trimmed leakage is larger
\* than the measured power plus the full leakage, and the run goes on to
\* the next pair or returns the table, with no error.
C31_NegativePowerKept ==
    [][SweepAppends =>
          \A k \in PowerMetrics :
             LET measured == EchoValues(At(loads, load_i), At(slews, slew_i))[k]
                 corrected == measured - trim_array_leakage + full_array_leakage
             IN  /\ char_data'[k] = Append(char_data[k], corrected)
                 /\ pc' \in {"sweep", "done"} /\ error' = ""
                 /\ (trim_array_leakage > measured + full_array_leakage) <=> corrected < 0]_vars
\* analyze returned a table whose power entries are all below 0
C31_Witness ==
    /\ pc = "done" /\ error = "" /\ sim.kind = "echo"
    /\ trim_array_leakage = 500 /\ full_array_leakage = 1
    /\ \A k \in PowerMetrics : Negative(char_data[k]) /\ Len(char_data[k]) = SweepPoints

\* ---------------------------------------------------------------------
\* The direction of the tolerance

\* the measurements of the trial are valid and neither delay is larger
\* than its reference
NoSlowerThanReference(out, p) ==
    /\ check_valid_delays(out, p)
    /\ out.delay_lh.val <= feasible_delay_lh
    /\ out.delay_hl.val <= feasible_delay_hl

\* C32 (as stated): the tolerance rejects a trial only for a delay that is
\* too big.  A trial whose measurements are valid, no larger than the
\* period, and whose delays are no larger than the reference delays
\* passes: the trial period becomes the upper bound, or is returned.
C32_SmallerDelayPasses ==
    [][(TrialRan /\ NoSlowerThanReference(
                       SimOut(sim, Midpoint(ub_period, lb_period), load, slew),
                       Midpoint(ub_period, lb_period))) =>
          /\ pc' = "find_min_period" => ub_period' = Midpoint(ub_period, lb_period)
          /\ pc' = "power_full" => min_period' = Midpoint(ub_period, lb_period)]_vars

\* ---------------------------------------------------------------------
\* The bounds of find_min_period

\* the period find_feasible_period returned, the first upper bound
FeasiblePeriod == feasible_period * NominalPeriod
\* the iteration that starts in this state runs a trial
TrialAhead == pc = "find_min_period" /\ ~TimedOut(CountDown(time_out))

\* C33: throughout find_min_period, whatever the simulator gives, the
\* bounds satisfy 0 <= lb_period < ub_period <= feasible period and, after
\* k trials, ub_period - lb_period is the feasible period / 2^k, exactly;
\* the period of every trial is (ub_period + lb_period) / 2, strictly
\* between the bounds; a trial moves exactly one bound, to the trial
\* period: the upper bound down or the lower bound up.
C33_BoundsHalve ==
    [][/\ pc = "find_min_period" =>
             /\ 0 <= lb_period /\ lb_period < ub_period /\ ub_period <= FeasiblePeriod
             /\ FeasiblePeriod % 2^run_sim_calls = 0
             /\ ub_period - lb_period = FeasiblePeriod \div 2^run_sim_calls
       /\ (TrialAhead /\ pc' # "error") =>
             /\ 2 * period' = ub_period + lb_period
             /\ lb_period < period' /\ period' < ub_period
       /\ (pc = "find_min_period" /\ pc' = pc) =>
             /\ run_sim_calls' = run_sim_calls + 1
             /\ target_period' = period'
             /\ \/ ub_period' = target_period' /\ ub_period' < ub_period
                   /\ lb_period' = lb_period
                \/ lb_period' = target_period' /\ lb_period' > lb_period
                   /\ ub_period' = ub_period
      ]_vars
\* after 5 trials from a feasible period of 4 seeds, both bounds moved
C33_Witness ==
    /\ pc = "find_min_period" /\ run_sim_calls = 5 /\ feasible_period = 4
    /\ sim.kind = "any" /\ lb_period > 0 /\ ub_period < FeasiblePeriod
    /\ ub_period - lb_period = NominalPeriod \div 8

\* ---------------------------------------------------------------------
\* The streams and the control levels of the cycle list

\* <<csb, web, oeb>> of the three operations
IdleLevels == <<1, 1, 1>>
ReadLevels == <<0, 1, 0>>
WriteLevels == <<0, 0, 1>>
\* <<csb, web, oeb>> of cycle i (1-based position in the lists)
ControlLevels(c, i) == <<c.csb_values[i], c.web_values[i], c.oeb_values[i]>>
CyclePositions(c) == 1..Len(c.cycle_times)

\* C34: after every call of create_test_cycles that returned, there is one
\* stream per address bit and per data bit, each of them, csb_values,
\* web_values, oeb_values and cycle_comments has as many values as
\* cycle_times, every address and data value is 0 or 1, and in every cycle
\* <<csb, web, oeb>> is <<1,1,1>> (idle), <<0,1,0>> (read) or <<0,0,1>>
\* (write): web and oeb are never both 0 in one cycle.
C34_StreamsAligned ==
    CyclesBuilt =>
        /\ DOMAIN cycles.addr_values = 1..addr_size
        /\ DOMAIN cycles.data_values = 1..word_size
        /\ \A i \in 1..addr_size :
              /\ Len(cycles.addr_values[i]) = Len(cycles.cycle_times)
              /\ \A n \in CyclePositions(cycles) : cycles.addr_values[i][n] \in {0, 1}
        /\ \A j \in 1..word_size :
              /\ Len(cycles.data_values[j]) = Len(cycles.cycle_times)
              /\ \A n \in CyclePositions(cycles) : cycles.data_values[j][n] \in {0, 1}
        /\ Len(cycles.csb_values) = Len(cycles.cycle_times)
        /\ Len(cycles.web_values) = Len(cycles.cycle_times)
        /\ Len(cycles.oeb_values) = Len(cycles.cycle_times)
        /\ Len(cycles.cycle_comments) = Len(cycles.cycle_times)
        /\ \A n \in CyclePositions(cycles) :
              /\ ControlLevels(cycles, n) \in {IdleLevels, ReadLevels, WriteLevels}
              /\ ~(cycles.web_values[n] = 0 /\ cycles.oeb_values[n] = 0)
\* a rebuilt list of the largest memory that holds cycles of all three
\* operations
C34_Witness ==
    /\ CyclesBuilt /\ word_size = MaxWordSize /\ addr_size = MaxAddrSize
    /\ period # NominalPeriod
    /\ \E n \in CyclePositions(cycles) : ControlLevels(cycles, n) = IdleLevels
    /\ \E n \in CyclePositions(cycles) : ControlLevels(cycles, n) = ReadLevels
    /\ \E n \in CyclePositions(cycles) : ControlLevels(cycles, n) = WriteLevels

====
